---- MODULE Spec2Model ----
(***************************************************************************)
(* Model of the InfluxDB backup service (src/docker/backup_influxdb).      *)
(*                                                                         *)
(* Time is counted in ticks.  One tick is the resolution of a timestamp    *)
(* (the microsecond that _process_measurement subtracts); a day is         *)
(* TicksPerDay ticks (scaled down so that several pages fit the model).    *)
(*                                                                         *)
(* Spec       one worker, one mapping, one measurement: successive runs of *)
(*            BackupManager._process_measurement against a source that is *)
(*            appended to between runs.                                    *)
(* SpecRetry  BackupManager._execute_with_retry around a function whose    *)
(*            outcome per call is chosen by the environment.               *)
(* SpecFields BackupManager._get_fields_to_backup on every small field     *)
(*            listing and fields configuration.                            *)
(* SpecJob    BackupManager._process_databases under run_job_once: the     *)
(*            mappings of a worker and the measurements of each mapping.   *)
(* SpecOrch   BackupOrchestrator.run (main.py): the worker processes, the  *)
(*            results queue, the collection loop, the summary and the exit *)
(*            code.                                                        *)
(* SpecWorker run_worker (src/main.py): the configuration file is loaded   *)
(*            and validated by Config, the clients are constructed by      *)
(*            initialize_clients and the backup job is run once or handed  *)
(*            to the Scheduler, as the mode and the schedule say.          *)
(* SpecDiscovery  the search for configuration files, their validation and *)
(*            the start of the processes (BackupOrchestrator.run, and main *)
(*            of src/main.py).                                             *)
(* SpecDuration   _parse_duration and the unit mapping of _is_obsolete on  *)
(*            every short string.                                          *)
(* SpecRanges  the loop of _calculate_date_ranges, pass by pass;           *)
(*            SpecRangesFair adds that the loop keeps running.             *)
(***************************************************************************)
EXTENDS Integers, Sequences, FiniteSets, TLC

\* ---------------------------------------------------------------- bounds
MaxT == 2            \* source timestamps are 1..MaxT
MaxNow == 3          \* the clock runs from 1 to MaxNow
MaxPoints == 2       \* points ever appended to the source
MaxRuns == 2         \* runs of the backup job per behaviour
TicksPerDay == 1     \* scaled length of a day
MaxRetries == 3      \* largest options.retries tried
MaxMappings == 2     \* entries of source.databases
MaxMeasurements == 2 \* measurements a source database lists
MaxWorkers == 2      \* valid configuration files, one worker each
MaxCount == 1        \* largest counter a worker reports
MaxFiles == 2         \* entries of the config directory
MaxLen == 3           \* characters of a threshold string
MaxDays == 2          \* largest page width tried, in days
MinDateDepth == 2     \* days between datetime.min and 1970-01-01
MaxFires == 2         \* runs of the job fired by the cron trigger
MaxInitAttempts == 2 \* passes of the connection loop followed

\* ------------------------------------------------------------- constants
None == -1           \* Python's None for a timestamp
Null == "null"       \* a null value in a result row
Val == "v"           \* any non-null value
EPOCH == 0           \* datetime(1970, 1, 1)

Series == {"s1"}
Fields == {"a", "b"}
AliasCols == {"mean_a"}
Shapes == {"plain", "alias", "nullrow"}

VARIABLES
  \* ---- backup manager, one measurement
  cfg,        \* the worker's configuration (immutable after load)
  shape,      \* how the source shapes its result sets
  now,        \* datetime.now(timezone.utc)
  src,        \* points of the measurement in the source database
  dest,       \* points of the measurement in the destination database
  pc,         \* "idle" | "query" | "write" | "done"
  mstate,     \* state of the measurement in the current run
  F,          \* fields_to_backup of the current run
  resume,     \* how start_time was resolved
  pages,      \* date_ranges
  pageIdx,    \* index of the current page (1-based)
  batch,      \* points_to_write pending for the current page
  \* ---- history of the current run
  queried,    \* queries issued to the source, in order
  written,    \* batches handed to write_points, in order
  faulted,    \* a TSDB call of this run failed
  runNo,      \* runs started so far
  destAtStart,\* dest when the current run started
  prevPast,   \* every source point was older than the previous run
  prevOk,     \* the previous run completed without a failed call
  added,      \* points appended to the source since the previous run ended
  \* ---- retry executor
  retries,    \* options.retries
  attempt,    \* loop variable of _execute_with_retry
  rpc,        \* "call" | "sleep" | "returned" | "raised"
  calls,      \* outcomes of the calls made, in order
  sleeps,     \* number of time.sleep(retry_delay) taken
  outstanding,\* calls of func in progress
  \* ---- field selection
  fall,       \* all_fields: what get_field_keys answered
  fraw,       \* measurements.specific.<m>.fields as written in the file
  fchosen,    \* final_fields
  fpc,        \* "input" | "done"
  \* ---- job of a worker
  mcfg,       \* measurements.include and measurements.exclude
  nmappings,  \* len(source.databases)
  jdb,        \* index of the mapping being processed
  jlisting,   \* what the source listed for that mapping
  jlist,      \* the measurements to process for that mapping
  jm,         \* measurements of jlist processed so far
  jpc,        \* "create" | "list" | "measure" | "returned" | "caught"
  jfailed,    \* a measurement of this job ended Failed
  jtrace,     \* history: per mapping reached, whether its database was made
  \* ---- orchestrator
  nworkers,   \* len(valid_configs)
  wstate,     \* per worker: "spawned" | "running" | "done" | "dead"
              \*             | "terminated"
  results_queue, \* results put by the workers, in order
  oresults,   \* results collected by _collect_results
  shutdown_event, \* set by the signal handler
  opc,        \* "start" | "collect" | "join" | "exit"
  exit_code,  \* what run returned
  totals,     \* the totals _print_summary printed
  alive_at_signal, \* history: the workers alive when the signal arrived
  \* ---- start of a worker
  wfile,      \* the configuration file of the worker
  wenv,       \* os.environ: the variables that are set, with their values
  wconfig,    \* Config.config once loaded: <<>> or <<document>>
  wpc,        \* "load" | "init" | "connect" | "retry_wait" | "job"
              \* | "blocked" | "returned" | "crashed"
  werr,       \* the last exception raised, "" when none
  wattempts,  \* passes of the while True loop of initialize_clients
  wbackups,   \* backup jobs run
  wjobs,      \* history: who called run_backup, and how each call ended
  wlog,       \* the last message of the job stage of run_worker, "" if none
  \* ---- discovery of the configuration files
  dentry,     \* the entry point: "orchestrator" (main.py) | "main" (src/main.py)
  dfiles,     \* the entries of the config directory, in the order of their names
  dfound,     \* config_files: indices of dfiles
  dvalid,     \* valid_configs: indices of dfiles
  dspawned,   \* the files a process was started for, in order
  di,         \* position of the loop under way
  dpc,        \* "find" | "validate" | "spawn" | "running" | "exit"
  dexit,      \* what the entry point returned, None while it has not
  \* ---- duration strings
  tstr,       \* the threshold string of the configuration
  tparsed,    \* what _parse_duration answered for it
  tobsolete,  \* the delta _is_obsolete derives from it
  tpc,        \* "parse" | "units" | "done"
  \* ---- the pagination loop
  pstart,     \* start_str, None when there is none
  pend,       \* end_str, None when there is none
  pdays,      \* days, options.days_of_pagination
  pclock,     \* datetime.now
  pcur,       \* current_start
  pranges,    \* ranges
  ppass,      \* parity of the number of passes of the loop made
  ppc         \* "call" | "loop" | "returned" | "raised"

bvars == <<cfg, shape, now, src, dest, pc, mstate, F, resume, pages, pageIdx,
           batch, queried, written, faulted, runNo, destAtStart, prevPast,
           prevOk, added>>
rvars == <<retries, attempt, rpc, calls, sleeps, outstanding>>
ovars == <<nworkers, wstate, results_queue, oresults, shutdown_event, opc,
           exit_code, totals, alive_at_signal>>
jvars == <<mcfg, nmappings, jdb, jlisting, jlist, jm, jpc, jfailed, jtrace>>
fvars == <<fall, fraw, fchosen, fpc>>
wkvars == <<wfile, wenv, wconfig, wpc, werr, wattempts, wbackups, wjobs,
            wlog>>
dvars == <<dentry, dfiles, dfound, dvalid, dspawned, di, dpc, dexit>>
tvars == <<tstr, tparsed, tobsolete, tpc>>
pvars == <<pstart, pend, pdays, pclock, pcur, pranges, ppass, ppc>>
others == <<ovars, jvars, fvars, wkvars, dvars, tvars, pvars>>
notOrch == <<bvars, rvars, jvars, fvars, wkvars, dvars, tvars, pvars>>
notJob == <<bvars, rvars, ovars, fvars, wkvars, dvars, tvars, pvars>>
notFields == <<bvars, rvars, ovars, jvars, wkvars, dvars, tvars, pvars>>
notWorker == <<bvars, rvars, ovars, jvars, fvars, dvars, tvars, pvars>>
notDiscovery == <<bvars, rvars, ovars, jvars, fvars, wkvars, tvars, pvars>>
notDuration == <<bvars, rvars, ovars, jvars, fvars, wkvars, dvars, pvars>>
notRanges == <<bvars, rvars, ovars, jvars, fvars, wkvars, dvars, tvars>>
vars == <<bvars, rvars, others>>

\* ------------------------------------------------------------ arithmetic
Max(S) == CHOOSE x \in S : \A y \in S : y <= x
Min(S) == CHOOSE x \in S : \A y \in S : x <= y

\* ------------------------------------------------------ duration strings
\* A duration string is a sequence of one-character strings.
Digits == {"0", "1", "2", "3", "4", "5", "6", "7", "8", "9"}
Units == {"s", "m", "h", "d", "w", "y", "M"}

DigitVal(c) ==
  CASE c = "0" -> 0 [] c = "1" -> 1 [] c = "2" -> 2 [] c = "3" -> 3
    [] c = "4" -> 4 [] c = "5" -> 5 [] c = "6" -> 6 [] c = "7" -> 7
    [] c = "8" -> 8 [] c = "9" -> 9

\* Length of the longest prefix of s made of digits: what (\d+) consumes.
RECURSIVE DigitRun(_, _)
DigitRun(s, i) ==
  IF i <= Len(s) /\ s[i] \in Digits THEN DigitRun(s, i + 1) ELSE i - 1

RECURSIVE IntOf(_, _)
IntOf(s, n) == IF n = 0 THEN 0 ELSE 10 * IntOf(s, n - 1) + DigitVal(s[n])

UnitSeconds(u) ==
  CASE u = "s" -> 1
    [] u = "m" -> 60
    [] u = "h" -> 3600
    [] u = "d" -> 86400
    [] u = "w" -> 7 * 86400
    [] u = "M" -> 30 * 86400
    [] u = "y" -> 365 * 86400

\* _parse_duration: re.match anchors at the start only; the result is the
\* timedelta in seconds, ok = FALSE is the ValueError.
ParseDuration(s) ==
  LET n == DigitRun(s, 1) IN
  IF n >= 1 /\ n < Len(s) /\ s[n + 1] \in Units
    THEN [ok |-> TRUE, secs |-> IntOf(s, n) * UnitSeconds(s[n + 1])]
    ELSE [ok |-> FALSE, secs |-> 0]

\* str.lower on one character of the strings tried
Lower(c) == IF c = "M" THEN "m" ELSE c

\* The delta of _is_obsolete for a threshold string: int(threshold_str[:-1])
\* raises ValueError unless the text before the last character is a number;
\* the unit is the last character in lower case; an unknown unit is ignored
\* (the measurement is not obsolete).
IsObsoleteDelta(s) ==
  LET n == Len(s) - 1
      unit == Lower(s[Len(s)])
  IN  IF Len(s) = 0 \/ n = 0 \/ DigitRun(s, 1) < n
        THEN [kind |-> "ValueError", secs |-> 0]
      ELSE IF unit \in {"s", "m", "h", "d", "w", "M", "y"}
        THEN [kind |-> "delta", secs |-> IntOf(s, n) * UnitSeconds(unit)]
      ELSE [kind |-> "ignored", secs |-> 0]

\* A timedelta of secs seconds on the model's scale.
DurationTicks(secs) == (secs * TicksPerDay) \div 86400

\* ------------------------------------------------------------ TSDB client
\* A stored point is one field value of one series at one time; two writes
\* of the same (series, time, field) are one point (the TSDB deduplicates).
Times == 0..MaxNow
PointKeys == [series : Series, time : 1..MaxT, field : Fields]

FieldType == [f \in Fields |-> IF f = "a" THEN "float" ELSE "integer"]

\* get_field_keys: the fields present in the measurement, with their types.
GetFieldKeys(db) ==
  LET present == {p.field : p \in db} \cap Fields
  IN  [f \in present |-> FieldType[f]]

TimesOf(db, fields) == {p.time : p \in {q \in db : q.field \in fields}}

\* get_first_timestamp / get_last_timestamp with fields given: the earliest /
\* latest time at which one of the fields has a value, None when there is none.
GetFirstTimestamp(db, fields) ==
  IF TimesOf(db, fields) = {} THEN None ELSE Min(TimesOf(db, fields))

GetLastTimestamp(db, fields) ==
  IF TimesOf(db, fields) = {} THEN None ELSE Max(TimesOf(db, fields))

\* The WHERE clause of build_query as a predicate on a timestamp.
TimePredicateUpperOpen(q, t) == t >= q.start_time /\ t < q.end_time
TimePredicate(q, t) == t >= q.start_time /\ t <= q.end_time

\* build_query
BuildQuery(start_time, end_time, fields, group_by_interval) ==
  [fields |-> fields, start_time |-> start_time, end_time |-> end_time,
   group_by |-> IF group_by_interval # "" THEN "time,*" ELSE "*"]

\* The result set of a page query: one row per (series, time) at which a
\* selected field has a value, a column per selected field, null where the
\* field has no value at that time.  An "alias" source adds a column that is
\* not in the SELECT list; a "nullrow" source also returns the rows of the
\* window at which no selected field has a value.
HasValue(db, s, t, f) == [series |-> s, time |-> t, field |-> f] \in db

RowAt(db, q, s, t, extra) ==
  [series |-> s, time |-> t,
   vals |-> [c \in q.fields \cup extra |->
               IF c \in extra \/ HasValue(db, s, t, c) THEN Val ELSE Null]]

QueryData(db, q, sh) ==
  LET window == {t \in Times : TimePredicate(q, t)}
      hit(s, t) == \E f \in q.fields : HasValue(db, s, t, f)
      extra == IF sh = "alias" THEN AliasCols ELSE {}
  IN  {RowAt(db, q, s, t, extra) :
         <<s, t>> \in {x \in Series \X window :
                         sh = "nullrow" \/ hit(x[1], x[2])}}

\* extract_points_from_result
ExtractPointsKeepNulls(result) ==
  {[series |-> r.series, time |-> r.time, fields |-> r.vals] : r \in result}
ExtractPoints(result) ==
  LET fieldsOf(r) ==
        [k \in {c \in DOMAIN r.vals : r.vals[c] # Null} |-> r.vals[k]]
      point(r) == [series |-> r.series, time |-> r.time, fields |-> fieldsOf(r)]
  IN  {point(r) : r \in {x \in result : DOMAIN fieldsOf(x) # {}}}

\* write_points into a deduplicating database
WritePoints(db, points) ==
  db \cup UNION {{[series |-> p.series, time |-> p.time, field |-> k] :
                    k \in DOMAIN p.fields} : p \in points}

\* --------------------------------------------------------- backup manager
\* _get_fields_to_backup
NormalizedType(t) == IF t \in {"integer", "float"} THEN "numeric" ELSE t

GetFieldsToBackupBoth(all_fields, fields_config) ==
  {f \in DOMAIN all_fields :
     /\ all_fields[f] \in {"float", "integer", "string", "boolean"}
     /\ NormalizedType(all_fields[f]) \in fields_config.types
     /\ fields_config.include # {} => f \in fields_config.include
     /\ f \notin fields_config.exclude}
GetFieldsToBackup(all_fields, fields_config) ==
  LET valid_influx_types == {"float", "integer", "string", "boolean"}
      fields_by_type ==
        {f \in DOMAIN all_fields :
           /\ all_fields[f] \in valid_influx_types
           /\ NormalizedType(all_fields[f]) \in fields_config.types}
  IN  IF fields_config.include # {}
        THEN fields_by_type \cap fields_config.include
        ELSE fields_by_type \ fields_config.exclude

\* fields_config.get(key, default)
FieldsConfigGet(raw, key, default) ==
  IF key \in DOMAIN raw THEN raw[key] ELSE default

\* The fields configuration as _get_fields_to_backup reads it.
FieldsConfigOf(raw) ==
  [types |-> FieldsConfigGet(raw, "types", {"numeric", "string", "boolean"}),
   include |-> FieldsConfigGet(raw, "include", {}),
   exclude |-> FieldsConfigGet(raw, "exclude", {})]

\* _filter_obsolete_fields; last[f] is what get_last_timestamp answered for
\* the single field f.
FilterObsoleteFieldsSignFlipped(threshold_str, fields, last, clock) ==
  IF threshold_str = <<>> THEN fields
  ELSE IF ~ParseDuration(threshold_str).ok THEN fields
  ELSE {f \in fields :
          \/ last[f] = None
          \/ last[f] - clock <= DurationTicks(ParseDuration(threshold_str).secs)}
FilterObsoleteFieldsStrict(threshold_str, fields, last, clock) ==
  IF threshold_str = <<>> THEN fields
  ELSE IF ~ParseDuration(threshold_str).ok THEN fields
  ELSE {f \in fields :
          \/ last[f] = None
          \/ clock - last[f] < DurationTicks(ParseDuration(threshold_str).secs)}
FilterObsoleteFields(threshold_str, fields, last, clock) ==
  IF threshold_str = <<>> THEN fields
  ELSE IF ~ParseDuration(threshold_str).ok THEN fields
  ELSE {f \in fields :
          \/ last[f] = None
          \/ clock - last[f] <= DurationTicks(ParseDuration(threshold_str).secs)}

\* start_time when the destination is empty: one microsecond before the
\* first source point.
StartAfterFirst(first_ts) == first_ts + 1
StartBeforeFirst(first_ts) == first_ts - 1

\* _calculate_date_ranges
RangesFromDoWhile(current_start, end, width) ==
  <<<<current_start, IF current_start + width > end
                       THEN end ELSE current_start + width>>>>
RangesFromFirstOnly(current_start, end, width) ==
  IF current_start < end
    THEN <<<<current_start, IF current_start + width > end
                              THEN end ELSE current_start + width>>>>
    ELSE <<>>
RECURSIVE RangesFrom(_, _, _)
RangesFrom(current_start, end, width) ==
  IF current_start < end
    THEN LET current_end == IF current_start + width > end
                              THEN end ELSE current_start + width
         IN  <<<<current_start, current_end>>>>
               \o RangesFrom(current_end, end, width)
    ELSE <<>>

CalculateDateRangesToNow(start_str, end_str, days, clock) ==
  RangesFrom(IF start_str # None THEN start_str ELSE EPOCH, clock,
             days * TicksPerDay)
CalculateDateRanges(start_str, end_str, days, clock) ==
  LET start == IF start_str # None THEN start_str ELSE EPOCH
      end == IF end_str # None THEN end_str ELSE clock
  IN  RangesFrom(start, end, days * TicksPerDay)

\* ---------------------------------------------------------- configuration
NoThreshold == <<>>
OneDay == <<"1", "d">>
DefaultFields ==
  [types |-> {"numeric", "string", "boolean"}, include |-> {}, exclude |-> {}]

\* The configurations tried: options.backup_mode, options.range.*,
\* options.days_of_pagination, the two obsolescence thresholds,
\* measurements.specific.<m>.fields and source.group_by.
ConfigOf(mode, fthr, mthr) ==
  [backup_mode |-> mode, start_date |-> 1, end_date |-> MaxNow,
   days_of_pagination |-> 1, field_obsolete_threshold |-> fthr,
   obsolete_threshold |-> mthr, fields |-> DefaultFields, group_by |-> ""]

Configs ==
  {ConfigOf("incremental", NoThreshold, NoThreshold),
   ConfigOf("incremental", OneDay, NoThreshold),
   ConfigOf("incremental", NoThreshold, OneDay),
   ConfigOf("range", NoThreshold, NoThreshold),
   ConfigOf("range", OneDay, NoThreshold),
   [ConfigOf("range", NoThreshold, NoThreshold) EXCEPT !.start_date = MaxNow],
   [ConfigOf("incremental", NoThreshold, NoThreshold)
      EXCEPT !.fields = [DefaultFields EXCEPT !.exclude = Fields]]}

\* ------------------------------------------------- failures of TSDB calls
\* While a measurement is resolved at most one call fails: the server
\* rejects the query (InfluxDBClientError) or cannot be reached
\* (ConnectionError).
NoFault == [call |-> "none", field |-> "", kind |-> "none"]
FaultKinds == {"rejected", "unreachable"}
Faults ==
  {NoFault}
    \cup [call : {"get_field_keys", "get_last_timestamp",
                  "get_first_timestamp"}, field : {""}, kind : FaultKinds]
    \cup [call : {"field_last"}, field : Fields, kind : FaultKinds]

Hits(fault, call, field) == fault.call = call /\ fault.field = field

\* InfluxClient.query swallows InfluxDBClientError and returns None, so a
\* lookup built on it answers as if there were no data; a ConnectionError is
\* not caught.
Answer(fault, call, field, value, empty) ==
  IF Hits(fault, call, field) /\ fault.kind = "rejected" THEN empty ELSE value

Raises(fault, call, field) ==
  Hits(fault, call, field) /\ fault.kind = "unreachable"

NoResume == [kind |-> "none", t_last |-> None, t_first |-> None]

\* _process_measurement up to the page loop: what the measurement resolves
\* to under the given failure.  faulted says whether the failing call was
\* made at all.
Resolve(c, db_src, db_dest, clock, fault) ==
  LET skipped(f, r, flt) ==
        [state |-> "Skipped", F |-> f, resume |-> r, pages |-> <<>>,
         faulted |-> flt]
      failed(f, r) ==
        [state |-> "Failed", F |-> f, resume |-> r, pages |-> <<>>,
         faulted |-> TRUE]
      \* an exception that is not the failure of a TSDB call
      crashed(f, r, flt) ==
        [state |-> "Failed", F |-> f, resume |-> r, pages |-> <<>>,
         faulted |-> flt]
      paged(f, r, start, end, flt) ==
        [state |-> "Paginating", F |-> f, resume |-> r,
         pages |-> CalculateDateRanges(start, end, c.days_of_pagination, clock),
         faulted |-> flt]
      fk == Hits(fault, "get_field_keys", "")
      all_fields == Answer(fault, "get_field_keys", "", GetFieldKeys(db_src),
                           <<>>)
      candidate == GetFieldsToBackup(all_fields, c.fields)
      filters == c.field_obsolete_threshold # NoThreshold
                   /\ ParseDuration(c.field_obsolete_threshold).ok
      fhit == filters /\ fault.call = "field_last" /\ fault.field \in candidate
      last == [f \in candidate |->
                 Answer(fault, "field_last", f,
                        GetLastTimestamp(db_dest, {f}), None)]
      active == FilterObsoleteFields(c.field_obsolete_threshold, candidate,
                                     last, clock)
      lhit == Hits(fault, "get_last_timestamp", "")
      t_last == Answer(fault, "get_last_timestamp", "",
                       GetLastTimestamp(db_dest, active), None)
      shit == Hits(fault, "get_first_timestamp", "")
      t_first == Answer(fault, "get_first_timestamp", "",
                        GetFirstTimestamp(db_src, active), None)
      fromDest == [kind |-> "dest_last", t_last |-> t_last, t_first |-> None]
      fromSrc == [kind |-> "source_first", t_last |-> None, t_first |-> t_first]
  IN
  IF Raises(fault, "get_field_keys", "") THEN failed({}, NoResume)
  ELSE IF candidate = {} THEN skipped({}, NoResume, fk)
  ELSE IF fhit /\ fault.kind = "unreachable" THEN failed({}, NoResume)
  ELSE IF active = {} THEN skipped({}, NoResume, fk \/ fhit)
  ELSE IF c.backup_mode # "incremental"
    THEN paged(active, NoResume, c.start_date, c.end_date, fk \/ fhit)
  ELSE IF Raises(fault, "get_last_timestamp", "") THEN failed(active, NoResume)
  ELSE IF t_last # None
    THEN IF c.obsolete_threshold # NoThreshold
              /\ ParseDuration(c.obsolete_threshold).ok
           \* _is_obsolete is handed the timedelta and subscripts it:
           \* TypeError, which the except ValueError does not catch
           THEN crashed(active, fromDest, fk \/ fhit \/ lhit)
           ELSE paged(active, fromDest, t_last, None, fk \/ fhit \/ lhit)
  ELSE IF Raises(fault, "get_first_timestamp", "") THEN failed(active, NoResume)
  ELSE IF t_first = None
    THEN skipped(active, NoResume, fk \/ fhit \/ lhit \/ shit)
  ELSE paged(active, fromSrc, StartBeforeFirst(t_first), None,
             fk \/ fhit \/ lhit \/ shit)

\* ------------------------------------------------------------------ Init
RetryIdle ==
  /\ retries = 0 /\ attempt = 0 /\ rpc = "off"
  /\ calls = <<>> /\ sleeps = 0 /\ outstanding = 0

OrchIdle ==
  /\ nworkers = 0 /\ wstate = <<>> /\ results_queue = <<>> /\ oresults = <<>>
  /\ shutdown_event = FALSE /\ opc = "off" /\ exit_code = None
  /\ totals = <<>> /\ alive_at_signal = {}

JobIdle ==
  /\ mcfg = [include |-> {}, exclude |-> {}] /\ nmappings = 0 /\ jdb = 0
  /\ jlisting = <<>> /\ jlist = <<>> /\ jm = 0 /\ jpc = "off"
  /\ jfailed = FALSE /\ jtrace = <<>>

FieldsIdle == fall = <<>> /\ fraw = <<>> /\ fchosen = {} /\ fpc = "off"

WorkerIdle ==
  /\ wfile = <<>> /\ wenv = <<>> /\ wconfig = <<>> /\ wpc = "off"
  /\ werr = "" /\ wattempts = 0 /\ wbackups = 0
  /\ wjobs = <<>> /\ wlog = ""

DiscoveryIdle ==
  /\ dentry = "" /\ dfiles = <<>> /\ dfound = <<>> /\ dvalid = <<>>
  /\ dspawned = <<>> /\ di = 0 /\ dpc = "off" /\ dexit = None

DurationIdle ==
  tstr = <<>> /\ tparsed = <<>> /\ tobsolete = <<>> /\ tpc = "off"

RangesIdle ==
  /\ pstart = None /\ pend = None /\ pdays = 0 /\ pclock = 0
  /\ pcur = 0 /\ pranges = <<>> /\ ppass = 0 /\ ppc = "off"

OthersIdle ==
  /\ OrchIdle /\ JobIdle /\ FieldsIdle /\ WorkerIdle /\ DiscoveryIdle
  /\ DurationIdle /\ RangesIdle

BackupIdle ==
  /\ now = 1 /\ src = {} /\ dest = {}
  /\ pc = "idle" /\ mstate = "Start" /\ F = {} /\ resume = NoResume
  /\ pages = <<>> /\ pageIdx = 0 /\ batch = {}
  /\ queried = <<>> /\ written = <<>> /\ faulted = FALSE
  /\ runNo = 0 /\ destAtStart = {} /\ prevPast = FALSE /\ prevOk = FALSE
  /\ added = {}

ManagerIdle ==
  /\ cfg = ConfigOf("incremental", NoThreshold, NoThreshold)
  /\ shape = "plain"
  /\ BackupIdle
  /\ RetryIdle

\* Every configuration against a plain source; the sources that shape their
\* result sets otherwise against the incremental configuration without
\* thresholds (the extraction does not depend on the mode).
Scenarios ==
  (Configs \X {"plain"})
    \cup ({ConfigOf("incremental", NoThreshold, NoThreshold)}
            \X (Shapes \ {"plain"}))

Init ==
  /\ \E sc \in Scenarios : cfg = sc[1] /\ shape = sc[2]
  /\ BackupIdle
  /\ RetryIdle
  /\ OthersIdle

\* --------------------------------------------------------------- actions
\* The clock advances between runs.
Tick ==
  /\ pc = "idle"
  /\ runNo < MaxRuns
  /\ now < MaxNow
  /\ now' = now + 1
  /\ UNCHANGED <<cfg, shape, src, dest, pc, mstate, F, resume, pages, pageIdx,
                 batch, queried, written, faulted, runNo, destAtStart, prevPast,
                 prevOk, added>>
  /\ UNCHANGED <<rvars, others>>

\* A writer appends a point to the source between runs; its timestamp may lie
\* before or after the clock.
AppendSource(p) ==
  /\ pc = "idle"
  /\ runNo < MaxRuns
  /\ Cardinality(src) < MaxPoints
  /\ p \notin src
  /\ src' = src \cup {p}
  /\ added' = added \cup {p}
  /\ UNCHANGED <<cfg, shape, now, dest, pc, mstate, F, resume, pages, pageIdx,
                 batch, queried, written, faulted, runNo, destAtStart, prevPast,
                 prevOk>>
  /\ UNCHANGED <<rvars, others>>

\* The for loop of _process_measurement moves to the next page, or ends.
AdvanceSkip ==
  IF pageIdx + 1 < Len(pages)
    THEN /\ pageIdx' = pageIdx + 2
         /\ pc' = "query"
         /\ mstate' = "Paginating"
    ELSE /\ pageIdx' = pageIdx
         /\ pc' = "done"
         /\ mstate' = "Done"
Advance ==
  IF pageIdx < Len(pages)
    THEN /\ pageIdx' = pageIdx + 1
         /\ pc' = "query"
         /\ mstate' = "Paginating"
    ELSE /\ pageIdx' = pageIdx
         /\ pc' = "done"
         /\ mstate' = "Done"

\* _process_measurement from its start to the first page.
ProcessMeasurement(fault) ==
  /\ pc = "idle"
  /\ runNo < MaxRuns
  /\ LET r == Resolve(cfg, src, dest, now, fault) IN
       /\ F' = r.F
       /\ resume' = r.resume
       /\ pages' = r.pages
       /\ faulted' = r.faulted
       /\ IF r.state = "Paginating" /\ r.pages # <<>>
            THEN /\ mstate' = "Paginating" /\ pc' = "query" /\ pageIdx' = 1
            ELSE /\ mstate' = (IF r.state = "Paginating" THEN "Done" ELSE r.state)
                 /\ pc' = "done" /\ pageIdx' = 0
  /\ runNo' = runNo + 1
  /\ destAtStart' = dest
  /\ queried' = <<>>
  /\ written' = <<>>
  /\ batch' = {}
  /\ UNCHANGED <<cfg, shape, now, src, dest, prevPast, prevOk, added>>
  /\ UNCHANGED <<rvars, others>>

\* _transfer_data, the read: build_query, query_data under the retry
\* executor, extract_points_from_result.  query_data answers None for a
\* rejected query; an unreachable source raises once the retries are spent.
QueryPage(outcome) ==
  /\ pc = "query"
  /\ LET q == BuildQuery(pages[pageIdx][1], pages[pageIdx][2], F, cfg.group_by)
         results == IF outcome = "ok" THEN QueryData(src, q, shape) ELSE {}
         points_to_write == ExtractPoints(results)
     IN  /\ queried' = Append(queried, q)
         /\ faulted' = (faulted \/ outcome # "ok")
         /\ IF outcome = "unreachable"
              THEN /\ pc' = "done" /\ mstate' = "Failed"
                   /\ UNCHANGED <<pageIdx, batch>>
              ELSE IF points_to_write = {}
                THEN Advance /\ UNCHANGED batch
                ELSE /\ pc' = "write" /\ batch' = points_to_write
                     /\ UNCHANGED <<pageIdx, mstate>>
  /\ UNCHANGED <<cfg, shape, now, src, dest, F, resume, pages, written, runNo,
                 destAtStart, prevPast, prevOk, added>>
  /\ UNCHANGED <<rvars, others>>

\* _transfer_data, the write: write_points under the retry executor.
WritePage(outcome) ==
  /\ pc = "write"
  /\ written' = Append(written, [page |-> pageIdx, points |-> batch])
  /\ batch' = {}
  /\ IF outcome = "ok"
       THEN /\ dest' = WritePoints(dest, batch)
            /\ Advance
            /\ UNCHANGED faulted
       ELSE /\ pc' = "done" /\ mstate' = "Failed" /\ faulted' = TRUE
            /\ UNCHANGED <<dest, pageIdx>>
  /\ UNCHANGED <<cfg, shape, now, src, F, resume, pages, queried, runNo,
                 destAtStart, prevPast, prevOk, added>>
  /\ UNCHANGED <<rvars, others>>

\* The job returns; the worker waits for the next trigger.
ReturnToIdle ==
  /\ pc = "done"
  /\ pc' = "idle"
  /\ prevOk' = (mstate \in {"Done", "Skipped"} /\ ~faulted)
  /\ added' = {}
  /\ mstate' = "Start" /\ F' = {} /\ resume' = NoResume
  /\ pages' = <<>> /\ pageIdx' = 0 /\ batch' = {}
  /\ queried' = <<>> /\ written' = <<>> /\ faulted' = FALSE
  /\ destAtStart' = dest
  /\ prevPast' = \A p \in src : p.time < now
  /\ UNCHANGED <<cfg, shape, now, src, dest, runNo>>
  /\ UNCHANGED <<rvars, others>>

Next ==
  \/ Tick
  \/ \E p \in PointKeys : AppendSource(p)
  \/ \E fault \in Faults : ProcessMeasurement(fault)
  \/ \E outcome \in {"ok", "rejected", "unreachable"} : QueryPage(outcome)
  \/ \E outcome \in {"ok", "failed"} : WritePage(outcome)
  \/ ReturnToIdle

Spec == Init /\ [][Next]_vars

\* -------------------------------------------------------- retry executor
\* What one call of the wrapped function does: it returns, or raises an
\* error of one of the kinds of the TSDB client.
Outcomes == {"ok", "Unreachable", "QueryError", "WriteRejected", "AuthFailed"}
NonRetryable == {"QueryError", "WriteRejected", "AuthFailed"}

\* The test `attempt < self.retries` that decides between sleeping and
\* re-raising.
MayRetryOffByOne(att, budget) == att < budget - 1
MayRetry(att, budget) == att < budget

InitRetry ==
  /\ retries \in 0..MaxRetries
  /\ attempt = 0 /\ rpc = "call"
  /\ calls = <<>> /\ sleeps = 0 /\ outstanding = 0
  /\ cfg = ConfigOf("incremental", NoThreshold, NoThreshold)
  /\ shape = "plain"
  /\ BackupIdle
  /\ OthersIdle

\* func(*args, **kwargs) is entered.
BeginCall ==
  /\ rpc = "call"
  /\ rpc' = "in_call"
  /\ outstanding' = outstanding + 1
  /\ UNCHANGED <<retries, attempt, calls, sleeps>>
  /\ UNCHANGED <<bvars, others>>

\* func returns or raises; `except Exception` catches every error.
EndCall(outcome) ==
  /\ rpc = "in_call"
  /\ outstanding' = outstanding - 1
  /\ calls' = Append(calls, outcome)
  /\ rpc' = IF outcome = "ok" THEN "returned"
            ELSE IF MayRetry(attempt, retries) THEN "sleep"
            ELSE "raised"
  /\ UNCHANGED <<retries, attempt, sleeps>>
  /\ UNCHANGED <<bvars, others>>

\* time.sleep(self.retry_delay), then the next iteration of the loop.
Sleep ==
  /\ rpc = "sleep"
  /\ sleeps' = sleeps + 1
  /\ attempt' = attempt + 1
  /\ rpc' = "call"
  /\ UNCHANGED <<retries, calls, outstanding>>
  /\ UNCHANGED <<bvars, others>>

NextRetry ==
  \/ BeginCall
  \/ \E outcome \in Outcomes : EndCall(outcome)
  \/ Sleep

SpecRetry == InitRetry /\ [][NextRetry]_vars

\* -------------------------------------------------------- field selection
\* The types a server declares for a field, one of them none of the four
\* the backup knows.
DeclaredTypes == {"float", "integer", "string", "boolean", "unsigned"}
ConfigTypes == {"numeric", "string", "boolean"}

FieldListings == UNION {[D -> DeclaredTypes] : D \in SUBSET Fields}

\* A fields section with any of its three keys present.
RawFieldsConfigs ==
  UNION {{r \in [D -> SUBSET (ConfigTypes \cup Fields)] :
            /\ "types" \in D => r["types"] \subseteq ConfigTypes
            /\ "include" \in D => r["include"] \subseteq Fields
            /\ "exclude" \in D => r["exclude"] \subseteq Fields} :
         D \in SUBSET {"types", "include", "exclude"}}

InitFields ==
  /\ fall \in FieldListings
  /\ fraw \in RawFieldsConfigs
  /\ fchosen = {} /\ fpc = "input"
  /\ ManagerIdle
  /\ OrchIdle
  /\ JobIdle
  /\ WorkerIdle
  /\ DiscoveryIdle
  /\ DurationIdle
  /\ RangesIdle

\* _get_fields_to_backup
SelectFields ==
  /\ fpc = "input"
  /\ fchosen' = GetFieldsToBackup(fall, FieldsConfigOf(fraw))
  /\ fpc' = "done"
  /\ UNCHANGED <<fall, fraw>>
  /\ UNCHANGED notFields

NextFields == SelectFields

SpecFields == InitFields /\ [][NextFields]_vars

\* ------------------------------------------------------ job of a worker
MNames == {"m1", "m2", "m3"}

\* What SHOW MEASUREMENTS can list: distinct names, in the server's order.
Listings ==
  {l \in UNION {[1..n -> MNames] : n \in 0..MaxMeasurements} :
     \A i, j \in 1..Len(l) : i # j => l[i] # l[j]}

\* _get_filtered_measurements
GetFilteredMeasurementsBoth(all_measurements, include_list, exclude_list) ==
  SelectSeq(all_measurements,
            LAMBDA m : (include_list = {} \/ m \in include_list)
                         /\ m \notin exclude_list)
GetFilteredMeasurements(all_measurements, include_list, exclude_list) ==
  IF include_list # {}
    THEN SelectSeq(all_measurements, LAMBDA m : m \in include_list)
  ELSE IF exclude_list # {}
    THEN SelectSeq(all_measurements, LAMBDA m : m \notin exclude_list)
  ELSE all_measurements

InitJob ==
  /\ mcfg \in [include : SUBSET MNames, exclude : SUBSET MNames]
  /\ nmappings \in 0..MaxMappings
  /\ jdb = 1 /\ jlisting = <<>> /\ jlist = <<>> /\ jm = 0
  /\ jpc = "create" /\ jfailed = FALSE /\ jtrace = <<>>
  /\ ManagerIdle
  /\ OrchIdle
  /\ FieldsIdle
  /\ WorkerIdle
  /\ DiscoveryIdle
  /\ DurationIdle
  /\ RangesIdle

\* _process_databases, the head of the loop over source.databases: the next
\* mapping, or the return of the job when there is none.
NextMappingBreak(k) ==
  /\ jdb' = nmappings + 1 /\ jlisting' = <<>> /\ jlist' = <<>> /\ jm' = 0
  /\ jpc' = "create"
NextMapping(k) ==
  /\ jdb' = k /\ jlisting' = <<>> /\ jlist' = <<>> /\ jm' = 0
  /\ jpc' = "create"

\* The job returns when no mapping is left.
JobReturns ==
  /\ jpc = "create" /\ jdb > nmappings
  /\ jpc' = "returned"
  /\ UNCHANGED <<mcfg, nmappings, jdb, jlisting, jlist, jm, jfailed, jtrace>>
  /\ UNCHANGED notJob

\* dest_client.create_database: a failure is logged and the mapping skipped.
CreateDatabase(ok) ==
  /\ jpc = "create" /\ jdb <= nmappings
  /\ IF ok THEN /\ jpc' = "list"
                /\ UNCHANGED <<jdb, jlisting, jlist, jm>>
           ELSE NextMapping(jdb + 1)
  /\ jtrace' = Append(jtrace, [db |-> jdb,
                               what |-> IF ok THEN "created" ELSE "skipped"])
  /\ UNCHANGED <<mcfg, nmappings, jfailed>>
  /\ UNCHANGED notJob

\* _get_filtered_measurements for the mapping; a source that cannot be
\* reached raises, and run_job_once catches what leaves the job.
ListMeasurements(listing, reachable) ==
  /\ jpc = "list"
  /\ IF reachable
       THEN /\ jlisting' = listing
            /\ jlist' = GetFilteredMeasurements(listing, mcfg.include,
                                                mcfg.exclude)
            /\ IF jlist' = <<>>
                 THEN /\ jdb' = jdb + 1 /\ jpc' = "create"
                 ELSE /\ jdb' = jdb /\ jpc' = "measure"
            /\ jm' = 0
       ELSE /\ jpc' = "caught"
            /\ UNCHANGED <<jdb, jlisting, jlist, jm>>
  /\ UNCHANGED <<mcfg, nmappings, jfailed, jtrace>>
  /\ UNCHANGED notJob

\* _process_measurement for the next measurement of the mapping: it returns
\* (Done, Skipped) or raises (Failed).  Nothing between _transfer_data and
\* run_job_once catches the exception.
ProcessOne(outcome) ==
  /\ jpc = "measure"
  /\ IF outcome = "Failed"
       THEN /\ jpc' = "caught" /\ jfailed' = TRUE
            /\ UNCHANGED <<jdb, jlisting, jlist, jm>>
       ELSE /\ UNCHANGED jfailed
            /\ IF jm + 1 < Len(jlist)
                 THEN /\ jm' = jm + 1
                      /\ UNCHANGED <<jdb, jlisting, jlist, jpc>>
                 ELSE /\ jm' = jm + 1
                      /\ jdb' = jdb + 1 /\ jpc' = "create"
                      /\ UNCHANGED <<jlisting, jlist>>
  /\ UNCHANGED <<mcfg, nmappings, jtrace>>
  /\ UNCHANGED notJob

\* signal_handler of the orchestrator while the job runs: the event is set.
\* The job was handed no reference to the event (BackupProcessor(config_path),
\* processor.run()), and no step of it reads one.
SetShutdownEvent ==
  /\ jpc \in {"create", "list", "measure"}
  /\ ~shutdown_event
  /\ shutdown_event' = TRUE
  /\ UNCHANGED <<nworkers, wstate, results_queue, oresults, opc, exit_code,
                 totals, alive_at_signal>>
  /\ UNCHANGED <<bvars, rvars, jvars, fvars, wkvars, dvars, tvars, pvars>>

NextJob ==
  \/ SetShutdownEvent
  \/ JobReturns
  \/ \E ok \in BOOLEAN : CreateDatabase(ok)
  \/ \E listing \in Listings, reachable \in BOOLEAN :
       ListMeasurements(listing, reachable)
  \/ \E outcome \in {"Done", "Skipped", "Failed"} : ProcessOne(outcome)

SpecJob == InitJob /\ [][NextJob]_vars

\* ----------------------------------------------------------- orchestrator
\* What a worker puts on the queue.  A result without a 'stats' key is read
\* with .get(key, 0); it is modelled with counters of zero.
StatKeys == {"records_transferred", "databases_processed",
             "measurements_processed"}
ZeroStats == [k \in StatKeys |-> 0]
\* The counters tried: the three of a result alike.
StatsTried == {[k \in StatKeys |-> n] : n \in 0..MaxCount}

\* _run_backup_process, once processor.run() has returned result: the stats
\* are forwarded with either value of the success flag.
ResultData(w, result) ==
  [config |-> w, success |-> result.success, stats |-> result.stats]

\* _run_backup_process, the shutdown branch and the except branch.
ErrorData(w) == [config |-> w, success |-> FALSE, stats |-> ZeroStats]

\* _print_summary: the three totals add the counters of the results whose
\* success flag is set.
RECURSIVE TotalOf(_, _)
TotalOf(rs, k) ==
  IF rs = <<>> THEN 0
  ELSE (IF Head(rs).success THEN Head(rs).stats[k] ELSE 0)
         + TotalOf(Tail(rs), k)

NoSummary == <<>>
PrintSummary(rs) ==
  IF rs = <<>> THEN NoSummary ELSE [k \in StatKeys |-> TotalOf(rs, k)]

\* run, the exit code after the summary
FailedCount(rs) == Cardinality({i \in 1..Len(rs) : ~rs[i].success})
ExitCode(rs) == IF FailedCount(rs) > 0 THEN 1 ELSE 0

InitOrch ==
  /\ nworkers \in 0..MaxWorkers
  /\ wstate = [w \in 1..nworkers |-> "unborn"]
  /\ results_queue = <<>> /\ oresults = <<>>
  /\ shutdown_event = FALSE /\ opc = "start" /\ exit_code = None
  /\ totals = NoSummary /\ alive_at_signal = {}
  /\ ManagerIdle
  /\ JobIdle
  /\ FieldsIdle
  /\ WorkerIdle
  /\ DiscoveryIdle
  /\ DurationIdle
  /\ RangesIdle

\* run up to the collection loop: no valid configuration returns 1, else one
\* process per configuration is started.
StartProcesses ==
  /\ opc = "start"
  /\ IF nworkers = 0
       THEN /\ opc' = "exit" /\ exit_code' = 1 /\ UNCHANGED wstate
       ELSE /\ opc' = "collect" /\ UNCHANGED exit_code
            /\ wstate' = [w \in 1..nworkers |-> "spawned"]
  /\ UNCHANGED <<nworkers, results_queue, oresults, shutdown_event, totals,
                 alive_at_signal>>
  /\ UNCHANGED notOrch

\* _run_backup_process, start: the worker looks at the shutdown event once.
WorkerBeginNoReturn(w) ==
  /\ w \in DOMAIN wstate /\ wstate[w] = "spawned"
  /\ wstate' = [wstate EXCEPT ![w] = "running"]
  /\ results_queue' = IF shutdown_event
                        THEN Append(results_queue, ErrorData(w))
                        ELSE results_queue
  /\ UNCHANGED <<nworkers, oresults, shutdown_event, opc, exit_code, totals,
                 alive_at_signal>>
  /\ UNCHANGED notOrch
WorkerBegin(w) ==
  /\ w \in DOMAIN wstate /\ wstate[w] = "spawned"
  /\ IF shutdown_event
       THEN /\ results_queue' = Append(results_queue, ErrorData(w))
            /\ wstate' = [wstate EXCEPT ![w] = "done"]
       ELSE /\ wstate' = [wstate EXCEPT ![w] = "running"]
            /\ UNCHANGED results_queue
  /\ UNCHANGED <<nworkers, oresults, shutdown_event, opc, exit_code, totals,
                 alive_at_signal>>
  /\ UNCHANGED notOrch

\* _run_backup_process, end: processor.run() returned a result, or raised.
WorkerFinish(w, raised, result) ==
  /\ w \in DOMAIN wstate /\ wstate[w] = "running"
  /\ results_queue' = Append(results_queue,
                             IF raised THEN ErrorData(w)
                                       ELSE ResultData(w, result))
  /\ wstate' = [wstate EXCEPT ![w] = "done"]
  /\ UNCHANGED <<nworkers, oresults, shutdown_event, opc, exit_code, totals,
                 alive_at_signal>>
  /\ UNCHANGED notOrch

\* The worker process dies without putting a result (killed by the system).
WorkerDie(w) ==
  /\ w \in DOMAIN wstate /\ wstate[w] \in {"spawned", "running"}
  /\ wstate' = [wstate EXCEPT ![w] = "dead"]
  /\ UNCHANGED <<nworkers, results_queue, oresults, shutdown_event, opc,
                 exit_code, totals, alive_at_signal>>
  /\ UNCHANGED notOrch

\* _collect_results: results_queue.get returned a result.
CollectGet ==
  /\ opc = "collect"
  /\ Len(oresults) < nworkers
  /\ results_queue # <<>>
  /\ oresults' = Append(oresults, Head(results_queue))
  /\ results_queue' = Tail(results_queue)
  /\ opc' = IF Len(oresults) + 1 < nworkers THEN "collect" ELSE "join"
  /\ UNCHANGED <<nworkers, wstate, shutdown_event, exit_code, totals,
                 alive_at_signal>>
  /\ UNCHANGED notOrch

\* _collect_results: results_queue.get timed out; the loop is left.
CollectTimeout ==
  /\ opc = "collect"
  /\ Len(oresults) < nworkers
  /\ results_queue = <<>>
  /\ opc' = "join"
  /\ UNCHANGED <<nworkers, wstate, results_queue, oresults, shutdown_event,
                 exit_code, totals, alive_at_signal>>
  /\ UNCHANGED notOrch

\* signal_handler for SIGINT and SIGTERM, installed by
\* _setup_signal_handlers: it sets the event and returns.
SignalHandler ==
  /\ opc = "collect"
  /\ ~shutdown_event
  /\ shutdown_event' = TRUE
  /\ alive_at_signal' = {w \in DOMAIN wstate :
                           wstate[w] \in {"spawned", "running"}}
  /\ UNCHANGED <<nworkers, wstate, results_queue, oresults, opc, exit_code,
                 totals>>
  /\ UNCHANGED notOrch

\* run after the collection loop: a process that is still alive when its
\* join(timeout=60) returns is sent terminate(), joined for ten seconds and
\* killed; the summary is printed and the exit code is returned.
Finish ==
  /\ opc = "join"
  /\ wstate' = [w \in DOMAIN wstate |->
                  IF wstate[w] \in {"spawned", "running"}
                    THEN "terminated" ELSE wstate[w]]
  /\ totals' = PrintSummary(oresults)
  /\ exit_code' = ExitCode(oresults)
  /\ opc' = "exit"
  /\ UNCHANGED <<nworkers, results_queue, oresults, shutdown_event,
                 alive_at_signal>>
  /\ UNCHANGED notOrch

NextOrch ==
  \/ StartProcesses
  \/ \E w \in 1..MaxWorkers : WorkerBegin(w)
  \/ \E w \in 1..MaxWorkers, raised \in BOOLEAN,
        result \in [success : BOOLEAN, stats : StatsTried] :
       WorkerFinish(w, raised, result)
  \/ \E w \in 1..MaxWorkers : WorkerDie(w)
  \/ CollectGet
  \/ CollectTimeout
  \/ SignalHandler
  \/ Finish

SpecOrch == InitOrch /\ [][NextOrch]_vars

\* ------------------------------------------------------ start of a worker
\* A string of the configuration file is a sequence of tokens: literal text,
\* or a reference to an environment variable written $NAME, ${NAME} or
\* ${NAME:-default}.
Lit(text) ==
  [t |-> "lit", text |-> text, name |-> "", braces |-> FALSE,
   has_default |-> FALSE, default |-> ""]
VarRef(name, braces, has_default, default) ==
  [t |-> "var", text |-> "", name |-> name, braces |-> braces,
   has_default |-> has_default, default |-> default]

\* os.environ as far as the file refers to it: URL is unset, set, or set to
\* the empty string.
Environments == {<<>>, [URL |-> "http://h:8086"], [URL |-> ""]}

\* replace_env_vars of conf.py: every reference is replaced by
\* os.getenv(name, default), the default being '' when none is written; the
\* result is one string, here its non-empty pieces.
ReplaceEnvVars(value, env) ==
  LET replace_var(tok) ==
        IF tok.t = "lit" THEN tok.text
        ELSE IF tok.name \in DOMAIN env THEN env[tok.name]
        ELSE IF tok.has_default THEN tok.default ELSE ""
      pieces == [i \in 1..Len(value) |-> Lit(replace_var(value[i]))]
  IN  SelectSeq(pieces, LAMBDA tok : tok.text # "")

\* The strings tried for source.url: a well-formed URL, one without scheme,
\* the empty string, and the three forms of reference.
UrlLeaves ==
  {<<Lit("http://h:8086")>>, <<Lit("h:8086")>>, <<>>,
   <<VarRef("URL", FALSE, FALSE, "")>>,
   <<VarRef("URL", TRUE, FALSE, "")>>,
   <<VarRef("URL", TRUE, TRUE, "http://d:8086")>>}
DestLeaves == {<<Lit("http://d:8086")>>, <<Lit("d:8086")>>}

\* InfluxClient.__init__ parses the URL it is given with split("://", 1),
\* split(":") and int(port): the text must be scheme://host:port as written.
WellFormedUrl(url) ==
  /\ Len(url) = 1
  /\ url[1].t = "lit"
  /\ url[1].text \in {"http://h:8086", "http://d:8086"}

\* What yaml.safe_load can return for the value of source or destination:
\* the key is absent, the value is null, a string (which may contain the
\* letters "url"), or a mapping with or without the key url.
NoUrl == [present |-> FALSE, value |-> <<>>]
SectionValues(leaves) ==
  [kind : {"absent", "null", "text", "text_url"}, url : {NoUrl}]
    \cup [kind : {"mapping"},
          url : {NoUrl} \cup [present : {TRUE}, value : leaves]]

\* options.incremental.schedule: absent or empty (""), a crontab expression
\* of five fields, or a text that is not one.
Schedules == {"", "0 3 * * *", "every day"}

\* CronTrigger.from_crontab raises ValueError unless the text is a crontab
\* expression.
ValidCron(expr) == expr = "0 3 * * *"

\* options: absent, null, or a mapping whose backup_mode is absent ("") or
\* one of three words, with the schedule of the incremental mode.
OptionValues ==
  [kind : {"absent", "null"}, backup_mode : {""}, schedule : {""}]
    \cup [kind : {"mapping"},
          backup_mode : {"", "incremental", "range", "full"},
          schedule : Schedules]

AbsentSection == [kind |-> "absent", url |-> NoUrl]
AbsentOptions == [kind |-> "absent", backup_mode |-> "", schedule |-> ""]

\* The configuration files: no file at the path, a file that is not YAML,
\* an empty file (safe_load returns None), or a mapping.
ConfigFiles ==
  [kind : {"missing", "malformed", "null"}, source : {AbsentSection},
   destination : {AbsentSection}, options : {AbsentOptions}]
    \cup [kind : {"mapping"}, source : SectionValues(UrlLeaves),
          destination : SectionValues(DestLeaves), options : OptionValues]

\* Config.get for the paths section.url: the default unless every value on
\* the way is a dict that holds the next key.
ConfigGetUrl(config, section) ==
  IF config.kind = "mapping" /\ config[section].kind = "mapping"
     /\ config[section].url.present
    THEN config[section].url
    ELSE NoUrl

\* Config.get("options.backup_mode"), "" for None
ConfigGetBackupMode(config) ==
  IF config.kind = "mapping" /\ config.options.kind = "mapping"
    THEN config.options.backup_mode
    ELSE ""

\* Config.get("options.incremental.schedule", "")
ConfigGetSchedule(config) ==
  IF config.kind = "mapping" /\ config.options.kind = "mapping"
    THEN config.options.schedule
    ELSE ""

\* `"url" not in self.config.get(section, {})`: the operator `in` on a dict
\* tests the keys, on a string the substrings, and raises TypeError on None.
UrlInSection(sec) ==
  IF sec.kind = "mapping" THEN sec.url.present ELSE sec.kind = "text_url"

\* Config._validate_config: "ok" or the exception raised
ValidateConfig(config) ==
  IF config.kind = "null" THEN "TypeError"
  ELSE IF \E key \in {"source", "destination"} : config[key].kind = "absent"
    THEN "ValueError"
  ELSE IF config.options.kind = "absent" THEN "ValueError"
  ELSE IF config.source.kind = "null" THEN "TypeError"
  ELSE IF ~UrlInSection(config.source) THEN "ValueError"
  ELSE IF config.destination.kind = "null" THEN "TypeError"
  ELSE IF ~UrlInSection(config.destination) THEN "ValueError"
  ELSE IF ConfigGetBackupMode(config) \notin {"incremental", "range"}
    THEN "ValueError"
  ELSE "ok"

\* Config.__init__: _load_config, then _validate_config
LoadResult(file) ==
  IF file.kind = "missing" THEN "FileNotFoundError"
  ELSE IF file.kind = "malformed" THEN "YAMLError"
  ELSE ValidateConfig(file)

InitWorker ==
  /\ wfile \in ConfigFiles
  /\ wenv \in Environments
  /\ wconfig = <<>> /\ wpc = "load" /\ werr = ""
  /\ wattempts = 0 /\ wbackups = 0
  /\ wjobs = <<>> /\ wlog = ""
  /\ ManagerIdle
  /\ OrchIdle
  /\ JobIdle
  /\ FieldsIdle
  /\ DiscoveryIdle
  /\ DurationIdle
  /\ RangesIdle

\* run_worker, Config(config_path): FileNotFoundError and ValueError are
\* logged and the worker returns; any other exception leaves run_worker.
\* _load_config returns what yaml.safe_load returned.
LoadConfig ==
  /\ wpc = "load"
  /\ LET r == LoadResult(wfile) IN
       IF r = "ok"
         THEN /\ wconfig' = <<wfile>> /\ wpc' = "init" /\ UNCHANGED werr
         ELSE /\ wpc' = IF r \in {"FileNotFoundError", "ValueError"}
                          THEN "returned" ELSE "crashed"
              /\ werr' = r /\ UNCHANGED wconfig
  /\ UNCHANGED <<wfile, wenv, wattempts, wbackups, wjobs, wlog>>
  /\ UNCHANGED notWorker

\* initialize_clients up to the loop: a URL that is None or '' raises
\* ValueError, which run_worker logs.
InitializeClients ==
  /\ wpc = "init"
  /\ LET source_url == ConfigGetUrl(wconfig[1], "source")
         dest_url == ConfigGetUrl(wconfig[1], "destination")
     IN  IF \/ ~source_url.present \/ source_url.value = <<>>
            \/ ~dest_url.present \/ dest_url.value = <<>>
           THEN wpc' = "returned" /\ werr' = "ValueError"
           ELSE wpc' = "connect" /\ UNCHANGED werr
  /\ UNCHANGED <<wfile, wenv, wconfig, wattempts, wbackups, wjobs, wlog>>
  /\ UNCHANGED notWorker

\* What the servers do to a pass of the loop when both URLs parse.
ConnectOutcomes == {"ok", "Unreachable", "AuthRejected"}

\* One pass of the while True loop: both clients are constructed and pinged.
\* `except Exception` catches whatever was raised and the loop goes on.
ConstructClients(outcome) ==
  /\ wpc = "connect"
  /\ LET malformed == \E section \in {"source", "destination"} :
                        ~WellFormedUrl(ConfigGetUrl(wconfig[1], section).value)
         raised == IF malformed THEN "ValueError" ELSE outcome
     IN  IF raised = "ok"
           THEN wpc' = "job" /\ UNCHANGED werr
           ELSE wpc' = "retry_wait" /\ werr' = raised
  /\ UNCHANGED <<wfile, wenv, wconfig, wattempts, wbackups, wjobs, wlog>>
  /\ UNCHANGED notWorker

\* time.sleep(retry_delay), then the next pass.
RetryDelay ==
  /\ wpc = "retry_wait"
  /\ wattempts < MaxInitAttempts
  /\ wattempts' = wattempts + 1
  /\ wpc' = "connect"
  /\ UNCHANGED <<wfile, wenv, wconfig, werr, wbackups, wjobs, wlog>>
  /\ UNCHANGED notWorker

\* How a call of backup_manager.run_backup ends: it returns, or it raises an
\* Exception.
JobOutcomes == {"ok", "raised"}

\* The branch run_worker takes: run_job_once for the range mode and for the
\* incremental mode with an empty schedule, Scheduler(...).start() for the
\* incremental mode with a schedule.
RunsOnce(config) ==
  \/ ConfigGetBackupMode(config) = "range"
  \/ /\ ConfigGetBackupMode(config) = "incremental"
     /\ ConfigGetSchedule(config) = ""

\* run_job_once without its try: what the job raises leaves run_job_once
\* and reaches `except Exception` of run_worker.
RunJobOnceEscapes(outcome) ==
  /\ wpc = "job"
  /\ RunsOnce(wconfig[1])
  /\ wbackups' = wbackups + 1
  /\ wjobs' = Append(wjobs, [by |-> "once", outcome |-> outcome])
  /\ wlog' = IF outcome = "raised" THEN "unexpected" ELSE "completed"
  /\ wpc' = "returned"
  /\ UNCHANGED <<wfile, wenv, wconfig, werr, wattempts>>
  /\ UNCHANGED notWorker

\* run_job_once(backup_manager.run_backup) and the message after it:
\* job_function() is called once inside try/except Exception, so run_worker
\* goes on to log the completion whatever the job did.
RunJobOnce(outcome) ==
  /\ wpc = "job"
  /\ RunsOnce(wconfig[1])
  /\ wbackups' = wbackups + 1
  /\ wjobs' = Append(wjobs, [by |-> "once", outcome |-> outcome])
  /\ wlog' = "completed"
  /\ wpc' = "returned"
  /\ UNCHANGED <<wfile, wenv, wconfig, werr, wattempts>>
  /\ UNCHANGED notWorker

\* Scheduler.start that runs the job once before it registers it.
SchedulerStartEager ==
  /\ wpc = "job"
  /\ ~RunsOnce(wconfig[1])
  /\ wbackups' = wbackups + 1
  /\ wjobs' = Append(wjobs, [by |-> "once", outcome |-> "ok"])
  /\ IF ValidCron(ConfigGetSchedule(wconfig[1]))
       THEN wpc' = "blocked" /\ wlog' = "scheduled"
       ELSE wpc' = "returned" /\ wlog' = "invalid_cron"
  /\ UNCHANGED <<wfile, wenv, wconfig, werr, wattempts>>
  /\ UNCHANGED notWorker

\* Scheduler(backup_manager.run_backup, cron_schedule).start() up to
\* self.scheduler.start(): add_job with the trigger parsed from the
\* expression; ValueError is logged and start returns, run_worker with it.
SchedulerStart ==
  /\ wpc = "job"
  /\ ~RunsOnce(wconfig[1])
  /\ IF ValidCron(ConfigGetSchedule(wconfig[1]))
       THEN wpc' = "blocked" /\ wlog' = "scheduled"
       ELSE wpc' = "returned" /\ wlog' = "invalid_cron"
  /\ UNCHANGED <<wfile, wenv, wconfig, werr, wattempts, wbackups, wjobs>>
  /\ UNCHANGED notWorker

\* The blocking scheduler fires the trigger and calls the job.
CronFire(outcome) ==
  /\ wpc = "blocked"
  /\ wbackups < MaxFires
  /\ wbackups' = wbackups + 1
  /\ wjobs' = Append(wjobs, [by |-> "cron", outcome |-> outcome])
  /\ UNCHANGED <<wfile, wenv, wconfig, wpc, werr, wattempts, wlog>>
  /\ UNCHANGED notWorker

\* self.scheduler.start() is left by an exception only (KeyboardInterrupt,
\* SystemExit or another one): the scheduler is shut down, start returns.
SchedulerStops ==
  /\ wpc = "blocked"
  /\ wpc' = "returned" /\ wlog' = "stopped"
  /\ UNCHANGED <<wfile, wenv, wconfig, werr, wattempts, wbackups, wjobs>>
  /\ UNCHANGED notWorker

NextWorker ==
  \/ LoadConfig
  \/ InitializeClients
  \/ \E outcome \in ConnectOutcomes : ConstructClients(outcome)
  \/ RetryDelay
  \/ \E outcome \in JobOutcomes : RunJobOnce(outcome)
  \/ SchedulerStart
  \/ \E outcome \in JobOutcomes : CronFire(outcome)
  \/ SchedulerStops

SpecWorker == InitWorker /\ [][NextWorker]_vars

\* ------------------------------------ discovery of the configuration files
\* An entry of the config directory, as far as the code looks at it: the end
\* of its name (".template" before the extension or not, the extension),
\* whether it is a regular file, and whether ConfigManager(path) accepts it.
DirEntries ==
  [template : BOOLEAN, ext : {"yaml", "yml", "txt"}, regular : BOOLEAN,
   valid : BOOLEAN]

\* The directories tried: up to MaxFiles entries, listed by name.
Directories == UNION {[1..n -> DirEntries] : n \in 0..MaxFiles}

\* The indices i of 1..Len(files) with Keep(files[i]), ascending
RECURSIVE IndicesFrom(_, _, _)
IndicesFrom(files, i, keep) ==
  IF i > Len(files) THEN <<>>
  ELSE IF i \in keep THEN <<i>> \o IndicesFrom(files, i + 1, keep)
  ELSE IndicesFrom(files, i + 1, keep)

\* BackupOrchestrator._find_config_files: the names that end with .yaml or
\* .yml and are regular files, sorted.
FindConfigFiles(files) ==
  IndicesFrom(files, 1,
              {i \in DOMAIN files :
                 files[i].ext \in {"yaml", "yml"} /\ files[i].regular})

\* main of src/main.py: glob("*.yaml") without the names that end with
\* .template.yaml.
GlobConfigFiles(files) ==
  IndicesFrom(files, 1,
              {i \in DOMAIN files :
                 files[i].ext = "yaml" /\ ~files[i].template})

InitDiscovery ==
  /\ dentry \in {"orchestrator", "main"}
  /\ dfiles \in Directories
  /\ dfound = <<>> /\ dvalid = <<>> /\ dspawned = <<>>
  /\ di = 0 /\ dpc = "find" /\ dexit = None
  /\ ManagerIdle
  /\ OrchIdle
  /\ JobIdle
  /\ FieldsIdle
  /\ WorkerIdle
  /\ DurationIdle
  /\ RangesIdle

\* The search: run returns 1 and main returns when nothing was found; run
\* goes on to validate, main to start the processes.
Discover ==
  /\ dpc = "find"
  /\ dfound' = IF dentry = "orchestrator" THEN FindConfigFiles(dfiles)
               ELSE GlobConfigFiles(dfiles)
  /\ IF dfound' = <<>>
       THEN /\ dpc' = "exit" /\ di' = 0
            /\ dexit' = IF dentry = "orchestrator" THEN 1 ELSE 0
       ELSE /\ dpc' = IF dentry = "orchestrator" THEN "validate" ELSE "spawn"
            /\ di' = 1 /\ UNCHANGED dexit
  /\ dvalid' = IF dentry = "orchestrator" THEN <<>> ELSE dfound'
  /\ UNCHANGED <<dentry, dfiles, dspawned>>
  /\ UNCHANGED notDiscovery

\* The validation loop with every file kept.
ValidateKeepsAll ==
  /\ dpc = "validate"
  /\ dvalid' = Append(dvalid, dfound[di])
  /\ IF di < Len(dfound)
       THEN di' = di + 1 /\ UNCHANGED <<dpc, dexit>>
       ELSE /\ di' = 1
            /\ IF dvalid' = <<>> THEN dpc' = "exit" /\ dexit' = 1
               ELSE dpc' = "spawn" /\ UNCHANGED dexit
  /\ UNCHANGED <<dentry, dfiles, dfound, dspawned>>
  /\ UNCHANGED notDiscovery

\* One pass of the validation loop of run: _validate_config_file answers
\* whether ConfigManager(config_path) raised; after the last pass run returns
\* 1 when valid_configs is empty.
Validate ==
  /\ dpc = "validate"
  /\ dvalid' = IF dfiles[dfound[di]].valid THEN Append(dvalid, dfound[di])
               ELSE dvalid
  /\ IF di < Len(dfound)
       THEN di' = di + 1 /\ UNCHANGED <<dpc, dexit>>
       ELSE /\ di' = 1
            /\ IF dvalid' = <<>> THEN dpc' = "exit" /\ dexit' = 1
               ELSE dpc' = "spawn" /\ UNCHANGED dexit
  /\ UNCHANGED <<dentry, dfiles, dfound, dspawned>>
  /\ UNCHANGED notDiscovery

\* One pass of the loop that starts the processes: Process(...).start().
Spawn ==
  /\ dpc = "spawn"
  /\ dspawned' = Append(dspawned, dvalid[di])
  /\ IF di < Len(dvalid)
       THEN di' = di + 1 /\ UNCHANGED dpc
       ELSE di' = 0 /\ dpc' = "running"
  /\ UNCHANGED <<dentry, dfiles, dfound, dvalid, dexit>>
  /\ UNCHANGED notDiscovery

NextDiscovery ==
  \/ Discover
  \/ Validate
  \/ Spawn

SpecDiscovery == InitDiscovery /\ [][NextDiscovery]_vars

\* ------------------------------------------------------- duration strings
\* The characters of the threshold strings tried, and the strings.
Chars == {"0", "1", "3", "d", "m", "M", "y", "x"}
Strings == UNION {[1..n -> Chars] : n \in 0..MaxLen}

InitDuration ==
  /\ tstr \in Strings
  /\ tparsed = <<>> /\ tobsolete = <<>> /\ tpc = "parse"
  /\ ManagerIdle
  /\ OrchIdle
  /\ JobIdle
  /\ FieldsIdle
  /\ WorkerIdle
  /\ DiscoveryIdle
  /\ RangesIdle

\* self._parse_duration(threshold_str)
ParseThreshold ==
  /\ tpc = "parse"
  /\ tparsed' = <<ParseDuration(tstr)>>
  /\ tpc' = "units"
  /\ UNCHANGED <<tstr, tobsolete>>
  /\ UNCHANGED notDuration

\* The unit mapping of _is_obsolete applied to the same string.
ObsoleteUnits ==
  /\ tpc = "units"
  /\ tobsolete' = <<IsObsoleteDelta(tstr)>>
  /\ tpc' = "done"
  /\ UNCHANGED <<tstr, tparsed>>
  /\ UNCHANGED notDuration

NextDuration ==
  \/ ParseThreshold
  \/ ObsoleteUnits

SpecDuration == InitDuration /\ [][NextDuration]_vars

\* ----------------------------------------------------- the pagination loop
\* The values of options.days_of_pagination tried: Config validates nothing
\* of it.
PageDays == (0 - 1)..MaxDays

\* datetime.min on the model's scale: a sum below it raises OverflowError.
DatetimeMin == EPOCH - MinDateDepth

\* The longest list of ranges the model keeps; a loop that goes on appends
\* to a list of at least that length.
RangesKept == MaxNow + MinDateDepth + 2

InitRanges ==
  /\ pstart \in {None} \cup 0..MaxNow
  /\ pend \in {None} \cup 0..MaxNow
  /\ pdays \in PageDays
  /\ pclock \in 1..MaxNow
  /\ pcur = 0 /\ pranges = <<>> /\ ppass = 0 /\ ppc = "call"
  /\ ManagerIdle
  /\ OrchIdle
  /\ JobIdle
  /\ FieldsIdle
  /\ WorkerIdle
  /\ DiscoveryIdle
  /\ DurationIdle

\* end of _calculate_date_ranges: end_str, or now when there is none
RangesEnd == IF pend # None THEN pend ELSE pclock

\* _calculate_date_ranges up to the loop: start is start_str, or 1970-01-01
\* when there is none.
EnterLoop ==
  /\ ppc = "call"
  /\ pcur' = IF pstart # None THEN pstart ELSE EPOCH
  /\ pranges' = <<>>
  /\ ppc' = "loop"
  /\ UNCHANGED <<pstart, pend, pdays, pclock, ppass>>
  /\ UNCHANGED notRanges

\* One pass of the loop without the clamp of current_end.
LoopPassNoClamp ==
  /\ ppc = "loop"
  /\ pcur < RangesEnd
  /\ LET current_end == pcur + pdays * TicksPerDay
     IN  IF current_end < DatetimeMin
           THEN ppc' = "raised" /\ UNCHANGED <<pcur, pranges, ppass>>
           ELSE /\ pranges' = IF Len(pranges) < RangesKept
                                THEN Append(pranges, <<pcur, current_end>>)
                                ELSE pranges
                /\ pcur' = current_end
                /\ ppass' = 1 - ppass
                /\ UNCHANGED ppc
  /\ UNCHANGED <<pstart, pend, pdays, pclock>>
  /\ UNCHANGED notRanges

\* One pass of `while current_start < end`: current_end is current_start
\* plus timedelta(days=days), clamped to end; the pair is appended and
\* current_start moves to current_end. The sum raises OverflowError below
\* datetime.min.
LoopPass ==
  /\ ppc = "loop"
  /\ pcur < RangesEnd
  /\ LET sum == pcur + pdays * TicksPerDay
         current_end == IF sum > RangesEnd THEN RangesEnd ELSE sum
     IN  IF sum < DatetimeMin
           THEN ppc' = "raised" /\ UNCHANGED <<pcur, pranges, ppass>>
           ELSE /\ pranges' = IF Len(pranges) < RangesKept
                                THEN Append(pranges, <<pcur, current_end>>)
                                ELSE pranges
                /\ pcur' = current_end
                /\ ppass' = 1 - ppass
                /\ UNCHANGED ppc
  /\ UNCHANGED <<pstart, pend, pdays, pclock>>
  /\ UNCHANGED notRanges

\* The loop condition is false: return ranges.
LeaveLoop ==
  /\ ppc = "loop"
  /\ ~(pcur < RangesEnd)
  /\ ppc' = "returned"
  /\ UNCHANGED <<pstart, pend, pdays, pclock, pcur, pranges, ppass>>
  /\ UNCHANGED notRanges

NextRanges ==
  \/ EnterLoop
  \/ LoopPass
  \/ LeaveLoop

SpecRanges == InitRanges /\ [][NextRanges]_vars

\* The interpreter runs the loop as long as its condition holds.
SpecRangesFair == SpecRanges /\ WF_vars(NextRanges)

\* ================================================================ claims
Range(seq) == {seq[i] : i \in 1..Len(seq)}

\* p is among the points of batch B
InBatch(p, B) ==
  \E q \in B : q.series = p.series /\ q.time = p.time /\ p.field \in DOMAIN q.fields

\* The points handed to write_points so far in this run.
Handed == UNION {w.points : w \in Range(written)} \cup batch

\* The batch of the first page.
FirstBatch ==
  IF pc = "write" /\ pageIdx = 1 THEN batch
  ELSE UNION {w.points : w \in {x \in Range(written) : x.page = 1}}

\* The timestamps the queries of this run select.
SelectedTimes == {t \in Times : \E q \in Range(queried) : TimePredicate(q, t)}

NoThresholds ==
  cfg.field_obsolete_threshold = NoThreshold /\ cfg.obsolete_threshold = NoThreshold

\* A run that completed with no failed call, after a run that completed with
\* no failed call.
SecondCleanRun ==
  /\ pc = "done" /\ mstate \in {"Done", "Skipped"} /\ ~faulted
  /\ runNo >= 2 /\ prevOk

C2_AppendedPointsCopied ==
  (/\ SecondCleanRun /\ cfg.backup_mode = "incremental" /\ NoThresholds
   /\ queried # <<>>)
    => \A p \in added : (p.field \in F /\ p.time <= now) => p \in dest

\* C3: with a destination empty for F, the earliest source point for F is
\* selected by the first page's query and is in the first batch written.
C3_FirstPointInFirstBatch ==
  (/\ resume.kind = "source_first" /\ ~faulted /\ queried # <<>>
   /\ (pc \in {"write", "done"} \/ (pc = "query" /\ pageIdx > 1)))
    => /\ queried[1].start_time = resume.t_first - 1
       /\ TimePredicate(queried[1], resume.t_first)
       /\ \A p \in src : (p.field \in F /\ p.time = resume.t_first)
                           => InBatch(p, FirstBatch)

\* The first page of a run against an empty destination was written.
C3_Witness ==
  /\ resume.kind = "source_first" /\ ~faulted
  /\ Len(written) >= 1 /\ written[1].page = 1
  /\ \E p \in src : p.time = resume.t_first /\ p \in dest

\* C4: no page query selects the destination's last timestamp t_last.
C4_LastPointNotReselected ==
  resume.kind = "dest_last"
    => \A q \in Range(queried) : ~TimePredicate(q, resume.t_last)

\* C5: every point handed to write_points has its field keys within F.
C5_WrittenFieldsWithinF ==
  \A p \in Handed : DOMAIN p.fields \subseteq F

\* C6: no point handed to write_points has an empty field map or a null
\* field value.
C6_NoEmptyNoNull ==
  \A p \in Handed :
    /\ DOMAIN p.fields # {}
    /\ \A k \in DOMAIN p.fields : p.fields[k] # Null

\* A source that returns all-null rows and rows with a null column was read,
\* and a point was emitted from a row whose other column was null.
C6_Witness ==
  /\ shape = "nullrow" /\ F = Fields
  /\ \E p \in Handed : DOMAIN p.fields # F

\* C7: a timestamp is selected by exactly one page when it lies in
\* (t_start, t_end], and by none otherwise.
PagesSelecting(t) ==
  {i \in 1..Len(pages) :
     TimePredicate(BuildQuery(pages[i][1], pages[i][2], F, cfg.group_by), t)}

C7_PagesTile ==
  pages # <<>>
    => \A t \in Times :
         Cardinality(PagesSelecting(t))
           = IF t > pages[1][1] /\ t <= pages[Len(pages)][2] THEN 1 ELSE 0

\* C8: a non-retryable error ends the executor at once: it is re-raised, no
\* delay follows it and no further call is made.
C8_NonRetryableSurfaces ==
  (calls # <<>> /\ calls[Len(calls)] \in NonRetryable) => rpc = "raised"

\* C9: k retryable failures followed by a success, k <= R, return after
\* exactly k+1 sequential calls; R+1 failures in a row make exactly R+1 calls
\* and re-raise; never more than R+1 calls, never two calls outstanding.
AllUnreachable(n) == \A i \in 1..n : calls[i] = "Unreachable"

C9_RetryBudget ==
  /\ outstanding \in {0, 1}
  /\ Len(calls) + outstanding <= retries + 1
  /\ sleeps <= retries
  /\ rpc = "returned"
       => /\ calls[Len(calls)] = "ok"
          /\ \A i \in 1..(Len(calls) - 1) : calls[i] # "ok"
          /\ sleeps = Len(calls) - 1
  /\ (rpc = "raised" /\ AllUnreachable(Len(calls)))
       => /\ Len(calls) = retries + 1
          /\ sleeps = retries
  /\ (AllUnreachable(Len(calls)) /\ Len(calls) <= retries)
       => rpc \in {"call", "in_call", "sleep"}

\* Two Unreachable failures, then success, with retries = 3.
C9_Witness ==
  /\ retries = 3 /\ rpc = "returned"
  /\ calls = <<"Unreachable", "Unreachable", "ok">>

\* C10 as claimed: in range mode the timestamps a completed run selects are
\* fixed by (start_date, end_date, days_of_pagination) whatever the
\* destination holds and whenever the run takes place.
RangeWindow ==
  IF cfg.start_date < cfg.end_date
    THEN {t \in Times : cfg.start_date <= t /\ t <= cfg.end_date}
    ELSE {}

C10_RangeSelectionFixed ==
  (/\ cfg.backup_mode = "range" /\ pc = "done" /\ ~faulted
   /\ GetFieldsToBackup(GetFieldKeys(src), cfg.fields) # {})
    => SelectedTimes = RangeWindow

\* C10 amended: a second range run over an unchanged source leaves the
\* destination as it found it, and a run whose active field set is not empty
\* selects the timestamps of [start_date, end_date] and no other (none when
\* start_date is not earlier than end_date).
C10_RangeIdempotent ==
  /\ (SecondCleanRun /\ cfg.backup_mode = "range" /\ added = {})
       => dest = destAtStart
  /\ (cfg.backup_mode = "range" /\ pc = "done" /\ ~faulted /\ F # {})
       => SelectedTimes = RangeWindow

\* A second range run re-read the range and changed nothing.
C10_Witness ==
  /\ SecondCleanRun /\ cfg.backup_mode = "range" /\ added = {}
  /\ mstate = "Done" /\ written # <<>> /\ dest = destAtStart

\* The sum of counter k over all the results the workers reported.
RECURSIVE ReportedSum(_, _)
ReportedSum(rs, k) ==
  IF rs = <<>> THEN 0 ELSE Head(rs).stats[k] + ReportedSum(Tail(rs), k)

\* C11: the totals of the summary are the sums of the counters of all the
\* collected results, those with success = False included.
C11_TotalsAreSums ==
  (opc = "exit" /\ oresults # <<>>)
    => \A k \in StatKeys : totals[k] = ReportedSum(oresults, k)

\* Worker w delivered a result with success = True.
Succeeded(w) == \E i \in 1..Len(oresults) :
                  oresults[i].config = w /\ oresults[i].success

\* C12: run returns 0 only if every spawned worker succeeded, and 1 if one
\* failed, crashed or never delivered a result.
C12_ExitCodeReflectsWorkers ==
  (opc = "exit" /\ nworkers > 0)
    => /\ exit_code = 0 => \A w \in 1..nworkers : Succeeded(w)
       /\ (\E w \in 1..nworkers : ~Succeeded(w)) => exit_code = 1

\* C13: a SIGINT delivered while run waits for the results makes run end
\* with exit code 130.
C13_SigintExits130 ==
  (opc = "exit" /\ shutdown_event) => exit_code = 130

\* The configured incremental.obsolete_threshold parses, and the destination's
\* last timestamp over F is older than now minus that threshold.
MeasurementIsObsolete ==
  /\ cfg.backup_mode = "incremental"
  /\ cfg.obsolete_threshold # NoThreshold
  /\ ParseDuration(cfg.obsolete_threshold).ok
  /\ resume.kind = "dest_last"
  /\ now - resume.t_last
       > DurationTicks(ParseDuration(cfg.obsolete_threshold).secs)

\* C14: a measurement that is obsolete under a valid
\* incremental.obsolete_threshold ends Skipped, with no page read and no
\* point written.
C14_ObsoleteMeasurementSkipped ==
  (pc = "done" /\ MeasurementIsObsolete)
    => mstate = "Skipped" /\ queried = <<>> /\ written = <<>>

\* C15: the obsolescence filters raise nothing out of _process_measurement:
\* a measurement ends Failed only when a TSDB call of the run failed.
C15_FiltersNeverRaise ==
  (pc = "done" /\ mstate = "Failed") => faulted

\* The candidate fields of the run, and those of them whose last destination
\* timestamp (taken for the field alone, when the run started) is older than
\* now minus field_obsolete_threshold.
Candidate == GetFieldsToBackup(GetFieldKeys(src), cfg.fields)

FieldThresholdSet ==
  /\ cfg.field_obsolete_threshold # NoThreshold
  /\ ParseDuration(cfg.field_obsolete_threshold).ok

StaleFields ==
  {f \in Candidate :
     /\ GetLastTimestamp(destAtStart, {f}) # None
     /\ now - GetLastTimestamp(destAtStart, {f})
          > DurationTicks(ParseDuration(cfg.field_obsolete_threshold).secs)}

\* C16: with field_obsolete_threshold set and no failed TSDB call, the active
\* field set is the candidate set without the stale fields, and a stale field
\* is in no page query and in no point handed to write_points.
C16_FieldFilterExact ==
  (pc # "idle" /\ FieldThresholdSet /\ ~faulted)
    => /\ F = Candidate \ StaleFields
       /\ \A i \in 1..Len(queried) : queried[i].fields \cap StaleFields = {}
       /\ \A p \in Handed : DOMAIN p.fields \cap StaleFields = {}

\* Field a went stale on the destination and was dropped, field b is new
\* there and was copied.
C16_Witness ==
  /\ pc = "done" /\ FieldThresholdSet /\ ~faulted
  /\ StaleFields = {"a"} /\ F = {"b"} /\ written # <<>>
  /\ \E p \in dest : p.field = "b"

\* Where name m stands in listing l.
PositionIn(l, m) == CHOOSE i \in 1..Len(l) : l[i] = m

\* C17: the measurements processed for a mapping are the listed ones that are
\* in measurements.include when it is not empty, else the listed ones not in
\* measurements.exclude; they keep the order of the listing and none is
\* absent from it.
C17_MeasurementFilter ==
  /\ Range(jlist) = IF mcfg.include # {}
                      THEN Range(jlisting) \cap mcfg.include
                      ELSE Range(jlisting) \ mcfg.exclude
  /\ Range(jlist) \subseteq Range(jlisting)
  /\ \A i, j \in 1..Len(jlist) :
       i < j => PositionIn(jlisting, jlist[i]) < PositionIn(jlisting, jlist[j])

\* Two measurements are processed in the listed order, one of them named in
\* both lists.
C17_Witness ==
  /\ jpc = "measure" /\ Len(jlist) = 2 /\ jlist = jlisting
  /\ mcfg.include # {}
  /\ \E m \in Range(jlist) : m \in mcfg.exclude

\* C19: a measurement that ends Failed on a page does not keep the job from
\* processing the measurements and mappings after it: when the job has
\* ended, no measurement of the mapping and no mapping is left unprocessed.
C19_FailureHaltsOnlyMeasurement ==
  (jpc \in {"returned", "caught"} /\ jfailed)
    => \/ jdb > nmappings
       \/ jdb = nmappings /\ jm + 1 = Len(jlist)

\* The source fields of a type the backup knows whose normalized type is
\* among the configured types.
FieldsOfConfiguredType ==
  LET configured == IF "types" \in DOMAIN fraw THEN fraw["types"]
                                               ELSE ConfigTypes
      normalized(t) == IF t \in {"float", "integer"} THEN "numeric" ELSE t
  IN  {f \in DOMAIN fall : /\ fall[f] \in {"float", "integer", "string",
                                           "boolean"}
                           /\ normalized(fall[f]) \in configured}

IncludeOf(raw) == IF "include" \in DOMAIN raw THEN raw["include"] ELSE {}
ExcludeOf(raw) == IF "exclude" \in DOMAIN raw THEN raw["exclude"] ELSE {}

\* C18: the candidate fields are the source fields of a configured type,
\* restricted to fields.include when it is not empty, else without
\* fields.exclude.
C18_CandidateFields ==
  fpc = "done"
    => fchosen = IF IncludeOf(fraw) # {}
                   THEN FieldsOfConfiguredType \cap IncludeOf(fraw)
                   ELSE FieldsOfConfiguredType \ ExcludeOf(fraw)

\* An integer field named in both lists is chosen under the default types,
\* and a field of an unknown type is not.
C18_Witness ==
  /\ fpc = "done"
  /\ "types" \notin DOMAIN fraw
  /\ fall = [f \in Fields |-> IF f = "a" THEN "integer" ELSE "unsigned"]
  /\ IncludeOf(fraw) = Fields /\ ExcludeOf(fraw) = {"a"}
  /\ fchosen = {"a"}

\* C20: a page query that is the first call of the run to fail (the source
\* rejected it, or could not be reached) ends the measurement in state
\* Failed, and no further page is transferred.
C20_RejectedQueryFailsMeasurement ==
  [][(pc = "query" /\ ~faulted /\ faulted')
       => (mstate' = "Failed" /\ pc' = "done")]_vars

\* The points page i of the run yields on the unchanged source.
PagePoints(i) == ExtractPoints(QueryData(src, queried[i], shape))

WrittenPages == {written[k].page : k \in 1..Len(written)}

\* C21: within one measurement the reads are those of the pages of the run,
\* one each, in the order of the strictly ascending page starts; a page is
\* written only once its read is complete, the writes follow the order of the
\* pages, and when the read of page i+1 has been made page i has been
\* written or had no point to write.
C21_PagesInOrder ==
  (runNo > 0 /\ pc # "idle") =>
    /\ Len(queried) <= Len(pages)
    /\ \A i \in 1..Len(queried) :
         /\ queried[i].start_time = pages[i][1]
         /\ queried[i].end_time = pages[i][2]
    /\ \A i, j \in 1..Len(queried) :
         i < j => queried[i].start_time < queried[j].start_time
    /\ \A k \in 1..Len(written) : written[k].page \in 1..Len(queried)
    /\ \A k, l \in 1..Len(written) :
         k < l => written[k].page < written[l].page
    /\ pc = "query" => Len(queried) = pageIdx - 1
    /\ pc = "write" => /\ Len(queried) = pageIdx
                       /\ pageIdx \notin WrittenPages
                       /\ batch # {}
    /\ \A i \in 1..(Len(queried) - 1) :
         i \in WrittenPages \/ faulted \/ PagePoints(i) = {}

C21_Witness ==
  /\ pc = "done" /\ mstate = "Done" /\ ~faulted
  /\ Len(queried) = 3
  /\ WrittenPages = {1, 2}

\* C22: once the shutdown event is set the job starts no further mapping and
\* no further measurement: its only step is to return.
C22_NoWorkAfterShutdown ==
  [][shutdown_event => (jpc' = "returned" \/ UNCHANGED jvars)]_vars

\* The results of worker w on the queue or collected.
PutBy(w) ==
  {results_queue[i] : i \in {k \in 1..Len(results_queue) :
                               results_queue[k].config = w}}
    \cup {oresults[i] : i \in {k \in 1..Len(oresults) :
                                 oresults[k].config = w}}

\* C23: when the orchestrator has exited after a signal, every worker that
\* was alive when the signal arrived has been sent a termination request,
\* unless it died or gave up with a failure before the request could be sent.
C23_SignalTerminatesWorkers ==
  (opc = "exit" /\ shutdown_event)
    => \A w \in alive_at_signal :
         \/ wstate[w] \in {"terminated", "dead"}
         \/ \A r \in PutBy(w) : ~r.success

Collected(w) == \E i \in 1..Len(oresults) : oresults[i].config = w

\* C24: when the orchestrator exits, the result of a worker that put one on
\* the queue has been collected, whatever a sibling that crashed or hung did.
C24_SiblingResultsCollected ==
  opc = "exit"
    => \A w, v \in 1..nworkers :
         (v # w /\ wstate[v] \in {"dead", "terminated"} /\ wstate[w] = "done")
           => Collected(w)

\* The results worker w has put so far, collected or not.
ResultsOf(w) ==
  Cardinality({i \in 1..Len(results_queue) : results_queue[i].config = w})
    + Cardinality({i \in 1..Len(oresults) : oresults[i].config = w})

\* C25: a worker whose process function has returned, on any of its paths,
\* has put exactly one result; at no time has a worker put two.
C25_OneResultPerWorker ==
  \A w \in DOMAIN wstate :
    ResultsOf(w) = IF wstate[w] = "done" THEN 1 ELSE 0

C25_Witness ==
  /\ opc = "exit" /\ nworkers = 2 /\ shutdown_event
  /\ alive_at_signal = {1, 2}
  /\ wstate = <<"done", "done">>
  /\ Len(oresults) = 2
  /\ \E i, j \in 1..2 :
       /\ oresults[i] = ErrorData(1)
       /\ oresults[j].config = 2 /\ oresults[j].success
  /\ ResultsOf(1) = 1 /\ ResultsOf(2) = 1

\* What the claim calls a configuration that must not load: a required key
\* is missing, the path source.url or destination.url leads nowhere, or the
\* backup mode is not one of the two.
MustNotLoad(file) ==
  \/ file.kind = "null"
  \/ /\ file.kind = "mapping"
     /\ \/ \E key \in {"source", "destination", "options"} :
             file[key].kind = "absent"
        \/ ~ConfigGetUrl(file, "source").present
        \/ ~ConfigGetUrl(file, "destination").present
        \/ ConfigGetBackupMode(file) \notin {"incremental", "range"}

\* C26: once loading is over, a configuration that must not load has raised
\* an error, is not loaded and no backup runs for it; a mapping that passes
\* every check is loaded.
C26_InvalidConfigRejected ==
  wpc \notin {"off", "load"} =>
    /\ MustNotLoad(wfile) => (wconfig = <<>> /\ werr # "" /\ wbackups = 0)
    /\ (wfile.kind = "mapping" /\ ~MustNotLoad(wfile)) => wconfig = <<wfile>>

\* Every reference of the string is one the claim covers: its variable is
\* set, or it carries a default.
Resolvable(value, env) ==
  \A i \in 1..Len(value) :
    value[i].t = "var" => (value[i].name \in DOMAIN env \/ value[i].has_default)

\* C27: the source.url that get() answers for a loaded configuration is the
\* string of the file with its references replaced.
C27_PlaceholdersReplaced ==
  (wconfig # <<>> /\ ConfigGetUrl(wfile, "source").present
     /\ Resolvable(ConfigGetUrl(wfile, "source").value, wenv))
    => ConfigGetUrl(wconfig[1], "source").value
         = ReplaceEnvVars(ConfigGetUrl(wfile, "source").value, wenv)

\* C28: a worker never waits to retry after a terminal failure of the
\* construction of its clients.
C28_TerminalInitFailureEnds ==
  wpc = "retry_wait" => werr \notin {"ValueError", "AuthRejected"}

\* C29: in incremental mode, for a run in which no TSDB call failed, the
\* start of the transfer is the last destination timestamp over F when there
\* is one and the measurement is not obsolete, else the first source
\* timestamp over F less one tick, else the measurement is skipped unread;
\* F is the field set of every page query.
C29_IncrementalStart ==
  (pc \in {"query", "write", "done"} /\ cfg.backup_mode = "incremental"
     /\ ~faulted /\ F # {})
    => LET t_last == GetLastTimestamp(destAtStart, F)
           t_first == GetFirstTimestamp(src, F)
           obsolete ==
             /\ cfg.obsolete_threshold # NoThreshold
             /\ ParseDuration(cfg.obsolete_threshold).ok
             /\ now - t_last
                  > DurationTicks(ParseDuration(cfg.obsolete_threshold).secs)
       IN  /\ \A i \in 1..Len(queried) : queried[i].fields = F
           /\ IF t_last # None
                THEN obsolete
                       \/ /\ mstate \in {"Paginating", "Done"}
                          /\ resume.kind = "dest_last"
                          /\ resume.t_last = t_last
                          /\ pages # <<>> => pages[1][1] = t_last
              ELSE IF t_first # None
                THEN /\ mstate \in {"Paginating", "Done"}
                     /\ resume.kind = "source_first"
                     /\ resume.t_first = t_first
                     /\ pages # <<>> => pages[1][1] = t_first - 1
              ELSE mstate = "Skipped" /\ queried = <<>> /\ written = <<>>

\* The active field set of the run is empty: no candidate, or every
\* candidate stale.
NoActiveField ==
  \/ Candidate = {}
  \/ FieldThresholdSet /\ Candidate \ StaleFields = {}

\* C30: a measurement whose active field set is empty, in a run of which no
\* TSDB call failed, ends Skipped with no page read and nothing written; no
\* resume lookup is made: a failing one would not be noticed.
C30_EmptyFieldSetSkips ==
  (pc \in {"query", "write", "done"} /\ ~faulted /\ NoActiveField)
    => /\ pc = "done" /\ mstate = "Skipped"
       /\ F = {} /\ resume = NoResume
       /\ queried = <<>> /\ written = <<>> /\ dest = destAtStart
       /\ \A fault \in Faults :
            fault.call \in {"get_last_timestamp", "get_first_timestamp"}
              => LET r == Resolve(cfg, src, destAtStart, now, fault)
                 IN  r.state = "Skipped" /\ ~r.faulted

C30_Witness ==
  /\ pc = "done" /\ mstate = "Skipped" /\ ~faulted
  /\ FieldThresholdSet
  /\ Candidate # {} /\ Candidate \ StaleFields = {}
  /\ queried = <<>> /\ dest = destAtStart /\ dest # {}

\* C31: the mappings are reached one by one in configuration order; a mapping
\* whose destination database could not be created has no measurement
\* listed or processed, and the mapping after it is the next one reached.
C31_CreateFailureSkipsMapping ==
  /\ \A k \in 1..Len(jtrace) : jtrace[k].db = k
  /\ jpc \in {"list", "measure"}
       => /\ Len(jtrace) = jdb
          /\ jtrace[jdb].what = "created"
  /\ jpc = "create"
       => /\ Len(jtrace) = jdb - 1
          /\ (jtrace # <<>> /\ jtrace[Len(jtrace)].what = "skipped")
               => (jlisting = <<>> /\ jlist = <<>> /\ jm = 0)
  /\ jpc = "returned" => Len(jtrace) = nmappings

C31_Witness ==
  /\ jpc = "measure" /\ jdb = 2 /\ jm = 1
  /\ jtrace = <<[db |-> 1, what |-> "skipped"], [db |-> 2, what |-> "created"]>>

\* C32: a worker that runs its job once calls it exactly once, and whether
\* the job returned or raised the worker goes on to the completion message
\* and returns: nothing the job raised reaches run_worker.
C32_RunOnceSwallows ==
  (wconfig # <<>> /\ RunsOnce(wconfig[1]))
    => /\ wpc \notin {"blocked", "crashed"}
       /\ wpc = "job" => (wjobs = <<>> /\ wlog = "")
       /\ (wjobs # <<>> \/ wlog # "")
            => /\ wpc = "returned"
               /\ Len(wjobs) = 1 /\ wbackups = 1
               /\ wlog = "completed"

C32_Witness ==
  /\ wpc = "returned" /\ wlog = "completed"
  /\ wjobs = <<[by |-> "once", outcome |-> "raised"]>>

\* C40: the job is run according to the mode. Range mode, and incremental
\* mode without schedule: one direct run, then the worker returns. With a
\* schedule that is a crontab expression the job is never run directly: it
\* runs when the trigger fires, and the worker returns only once the
\* scheduler was stopped. With a schedule that is no crontab expression the
\* worker returns and the job never ran.
C40_ModeDispatch ==
  (wconfig # <<>> /\ wlog # "")
    => LET mode == ConfigGetBackupMode(wconfig[1])
           schedule == ConfigGetSchedule(wconfig[1])
       IN  IF mode = "range" \/ schedule = ""
             THEN /\ wpc = "returned"
                  /\ Len(wjobs) = 1 /\ wjobs[1].by = "once"
           ELSE IF ValidCron(schedule)
             THEN /\ \A i \in 1..Len(wjobs) : wjobs[i].by = "cron"
                  /\ wpc \in {"blocked", "returned"}
                  /\ wpc = "returned" <=> wlog = "stopped"
           ELSE wpc = "returned" /\ wjobs = <<>> /\ wbackups = 0

C40_Witness ==
  /\ wpc = "returned" /\ wlog = "stopped"
  /\ ConfigGetBackupMode(wconfig[1]) = "incremental"
  /\ Len(wjobs) = 2 /\ wjobs[1].by = "cron"

\* A template file: its name carries .template before the extension
IsTemplate(file) == file.template

\* C33: what discovery returns is every regular file of the directory with
\* the extension yaml or yml that is no template file, and no process is
\* started for a template file.
C33_DiscoveryExcludesTemplates ==
  /\ dpc \notin {"off", "find"}
       => Range(dfound)
            = {i \in DOMAIN dfiles :
                 /\ dfiles[i].regular
                 /\ dfiles[i].ext \in {"yaml", "yml"}
                 /\ ~IsTemplate(dfiles[i])}
  /\ \A k \in 1..Len(dspawned) : ~IsTemplate(dfiles[dspawned[k]])

\* C34: once run has started its processes, each file that passed validation
\* has exactly one process and no other file has one; when no file passed,
\* no process is started and run returns 1.
C34_OneWorkerPerValidConfig ==
  dentry = "orchestrator" =>
    LET passed == {i \in Range(dfound) : dfiles[i].valid}
        started(i) == Cardinality({k \in 1..Len(dspawned) : dspawned[k] = i})
    IN  /\ \A i \in DOMAIN dfiles : started(i) <= 1
        /\ \A i \in DOMAIN dfiles : started(i) = 1 => i \in passed
        /\ dpc = "running" => \A i \in passed : started(i) = 1
        /\ (dpc \in {"spawn", "running", "exit"} /\ passed = {})
             => (dpc = "exit" /\ dexit = 1 /\ dspawned = <<>>)

C34_Witness ==
  /\ dentry = "orchestrator" /\ dpc = "running"
  /\ Len(dfound) = 2 /\ dspawned = <<2>>
  /\ ~dfiles[1].valid

\* The strings of the form <integer><unit>, and their length in seconds
\* with M = 30 days and y = 365 days.
IsIntegerUnit(s) ==
  /\ Len(s) >= 2
  /\ \A i \in 1..(Len(s) - 1) : s[i] \in Digits
  /\ s[Len(s)] \in {"s", "m", "h", "d", "w", "M", "y"}

SecondsOf(s) ==
  LET per == CASE s[Len(s)] = "s" -> 1 [] s[Len(s)] = "m" -> 60
               [] s[Len(s)] = "h" -> 3600 [] s[Len(s)] = "d" -> 86400
               [] s[Len(s)] = "w" -> 604800
               [] s[Len(s)] = "M" -> 30 * 86400
               [] s[Len(s)] = "y" -> 365 * 86400
  IN  IntOf(s, Len(s) - 1) * per

\* C35: the parser accepts exactly the strings <integer><unit> and answers
\* their length with M = 30 days and y = 365 days, any other string is a
\* ValueError; the measurement-level check derives the same delta from the
\* string.
C35_DurationGrammar ==
  /\ tparsed # <<>>
       => /\ tparsed[1].ok <=> IsIntegerUnit(tstr)
          /\ tparsed[1].ok => tparsed[1].secs = SecondsOf(tstr)
  /\ (tobsolete # <<>> /\ IsIntegerUnit(tstr))
       => (tobsolete[1].kind = "delta" /\ tobsolete[1].secs = SecondsOf(tstr))

\* The start and the end _calculate_date_ranges resolved
RangesStart == IF pstart # None THEN pstart ELSE EPOCH

\* ceil(a / b) for b >= 1
CeilDiv(a, b) == (a + b - 1) \div b

\* C36: for start < end and a width W >= 1, the list returned has
\* ceil((end - start) / W) windows, the first starts at start, each window
\* ends where the next one starts, every window but the last is W long, the
\* last one is at most W long and ends at end.
C36_WindowsTileTheSpan ==
  (ppc = "returned" /\ RangesStart < RangesEnd /\ pdays >= 1)
    => LET W == pdays * TicksPerDay
           n == Len(pranges)
       IN  /\ n = CeilDiv(RangesEnd - RangesStart, W)
           /\ pranges[1][1] = RangesStart
           /\ pranges[n][2] = RangesEnd
           /\ \A k \in 1..(n - 1) :
                /\ pranges[k][2] = pranges[k + 1][1]
                /\ pranges[k][2] - pranges[k][1] = W
           /\ \A k \in 1..n : pranges[k][1] < pranges[k][2]
           /\ pranges[n][2] - pranges[n][1] <= W
           /\ pranges = CalculateDateRanges(pstart, pend, pdays, pclock)

C36_Witness ==
  /\ ppc = "returned" /\ pdays = 2
  /\ pranges = <<<<0, 2>>, <<2, 3>>>>

\* C37: for every start, end and days, the loop is left.
C37_LoopTerminates == <>(ppc \in {"returned", "raised"})

\* The start and the end the run under way resolved: range.start_date and
\* range.end_date, or the resume point and now.
SpanStart ==
  IF cfg.backup_mode = "range" THEN cfg.start_date
  ELSE IF resume.kind = "dest_last" THEN resume.t_last
  ELSE StartBeforeFirst(resume.t_first)
SpanEnd == IF cfg.backup_mode = "range" THEN cfg.end_date ELSE now

\* The run under way resolved a start and an end.
SpanResolved ==
  /\ pc \in {"query", "write", "done"}
  /\ mstate \in {"Paginating", "Done"}
  /\ cfg.backup_mode = "range" \/ resume # NoResume

\* C38: a run whose resolved start is not earlier than its resolved end has
\* no page, reads nothing, writes nothing and ends Done.
C38_EmptySpanNoTransfer ==
  (SpanResolved /\ SpanStart >= SpanEnd)
    => /\ pc = "done" /\ mstate = "Done"
       /\ pages = <<>> /\ queried = <<>> /\ written = <<>>
       /\ dest = destAtStart

C38_Witness ==
  /\ pc = "done" /\ mstate = "Done" /\ ~faulted
  /\ cfg.backup_mode = "incremental"
  /\ resume.kind = "dest_last" /\ resume.t_last >= now
  /\ pages = <<>> /\ queried = <<>> /\ src # {}

\* C39: a run falls back to the first source timestamp only when the
\* destination holds no timestamp for F: a lookup the destination rejected
\* is not an empty destination.
C39_RejectedLookupIsNotEmpty ==
  (pc \in {"query", "write", "done"} /\ resume.kind = "source_first")
    => GetLastTimestamp(destAtStart, F) = None

====
